---- MODULE Spec2Model ----
(***************************************************************************)
(* GitGenius: the agentic conversation engine (services/ai.ts,             *)
(* createChatStream), the file-state overlay and the tree synchronizer     *)
(* (App.tsx), as a state machine.                                          *)
(*                                                                         *)
(* A string is modelled by the pair (text, len): the first len characters  *)
(* of the text named by `text`.  slice(0, n) shortens len, truthiness is   *)
(* len > 0, and a missing key of a JS record is the value `undefined`.     *)
(* A path is the sequence of its '/'-separated segments.                   *)
(***************************************************************************)
EXTENDS Integers, Sequences, FiniteSets, TLC

(* ------------------------------- bounds -------------------------------- *)
\* function calls the AI collaborator may make in one engine run
MaxCalls == 2
\* chunks one response stream may carry
MaxChunks == 2
\* engine runs (user messages) in one session
MaxRuns == 2
\* user actions (select, edit, discard) in one session
MaxUserEvents == 2

(* ------------------------------ strings -------------------------------- *)
\* services/ai.ts: content.slice(0, 30000)
CAP == 30000

undefined == [text |-> "undefined", len |-> -1]
Str(t, n) == IF n = 0 THEN [text |-> "", len |-> 0] ELSE [text |-> t, len |-> n]
Empty == Str("", 0)

\* slice(0, n) left out: the whole string
SliceKeepsAll(s, n) == s

\* String.prototype.slice(0, n)
Slice(s, n) == IF s.len <= n THEN s ELSE Str(s.text, n)

\* JS truthiness of a string-or-undefined value
Truthy(s) == s.len > 0

\* the code an update (by the model or by the user) may carry: the empty
\* string and a short text
Codes == {Empty, Str("X", 1)}

\* what the repository holds for a path that has a remote locator: a text
\* one character longer than the cap
RemoteContent(path) == Str("R", CAP + 1)

\* services/ai.ts, catch branch of the read_file dispatch
ReadErrorContent == Str("Error: Could not read file. It might not exist or is not a text file.", 70)

(* ------------------------------- paths --------------------------------- *)
\* a file of the loaded repository, and a file the repository does not hold
PathA == <<"a">>
PathN == <<"d", "n">>
Paths == {PathA, PathN}

\* the names that occur as path segments, in localeCompare order
NameOrder == <<"a", "d", "n">>
NameRank(name) == CHOOSE i \in 1..Len(NameOrder) : NameOrder[i] = name

\* String.prototype.localeCompare on segment names
localeCompare(a, b) == NameRank(a) - NameRank(b)

(* ---------------------------- tree (FileNode) -------------------------- *)
\* types.ts FileNode; url is TRUE when the node has a remote locator, and
\* children is <<>> where the source has no children list (blobs)
BlobNode(path, hasUrl) ==
  [path |-> path, name |-> path[Len(path)], type |-> "blob", url |-> hasUrl, children |-> <<>>]
TreeNode(path, hasUrl, children) ==
  [path |-> path, name |-> path[Len(path)], type |-> "tree", url |-> hasUrl, children |-> children]

\* a comparator that orders by name alone, whatever the kinds
compareByNameOnly(a, b) == localeCompare(a.name, b.name)

\* the comparator of both sorts: folders first, then by name
compareNodes(a, b) ==
  IF a.type = b.type THEN localeCompare(a.name, b.name)
  ELSE IF a.type = "tree" THEN -1 ELSE 1

\* Array.prototype.sort with compareNodes (a stable sort)
RECURSIVE insertSorted(_, _)
insertSorted(sorted, n) ==
  IF sorted = <<>> THEN <<n>>
  ELSE IF compareNodes(n, sorted[Len(sorted)]) >= 0 THEN Append(sorted, n)
  ELSE Append(insertSorted(SubSeq(sorted, 1, Len(sorted) - 1), n), sorted[Len(sorted)])

RECURSIVE sortNodes(_)
sortNodes(nodes) ==
  IF nodes = <<>> THEN <<>>
  ELSE insertSorted(sortNodes(SubSeq(nodes, 1, Len(nodes) - 1)), nodes[Len(nodes)])

\* Array.prototype.findIndex over the predicate's values on the nodes,
\* 1-based, 0 when nothing matches
findIndex(matches) ==
  IF \E i \in 1..Len(matches) : matches[i]
  THEN CHOOSE i \in 1..Len(matches) : matches[i] /\ \A j \in 1..(i - 1) : ~matches[j]
  ELSE 0

\* App.tsx insertRecursive (currentDepth counts from 0 as in the source)
RECURSIVE insertRecursive(_, _, _)
insertRecursive(currentNodes, currentDepth, filePath) ==
  LET parts == SubSeq(filePath, 1, Len(filePath) - 1)
      fileName == filePath[Len(filePath)]
  IN IF currentDepth = Len(parts)
     THEN LET existingIndex ==
                findIndex([i \in 1..Len(currentNodes) |-> currentNodes[i].name = fileName])
          IN IF existingIndex # 0 THEN currentNodes
             ELSE sortNodes(Append(currentNodes, BlobNode(filePath, FALSE)))
     ELSE LET folderName == parts[currentDepth + 1]
              folderIndex ==
                findIndex([i \in 1..Len(currentNodes) |->
                             currentNodes[i].name = folderName /\ currentNodes[i].type = "tree"])
          IN IF folderIndex # 0
             THEN [currentNodes EXCEPT ![folderIndex] =
                     [@ EXCEPT !.children = insertRecursive(@, currentDepth + 1, filePath)]]
             ELSE sortNodes(Append(currentNodes,
                     TreeNode(SubSeq(filePath, 1, currentDepth + 1), FALSE,
                              insertRecursive(<<>>, currentDepth + 1, filePath))))

\* insertFileIntoTree that builds the result from the file alone: the nodes
\* of the tree it was given are not carried over
insertIntoNewTree(nodes, filePath) == insertRecursive(<<>>, 0, filePath)

\* App.tsx insertFileIntoTree
insertFileIntoTree(nodes, filePath) == insertRecursive(nodes, 0, filePath)

(* The same insertion over a heap, where arrays and node objects have
   identities: arr[r] is the array with reference r, a sequence of node
   references; node[n] is the object with reference n, its children field an
   array reference, 0 for undefined. Allocation appends, so a reference stays
   valid in every later heap. *)
NewHeap == [arr |-> <<>>, node |-> <<>>]

\* a new array holding refs: an array literal
allocArray(H, refs) == [h |-> [H EXCEPT !.arr = Append(@, refs)], ref |-> Len(H.arr) + 1]

\* a new object: an object literal
allocNode(H, object) == [h |-> [H EXCEPT !.node = Append(@, object)], ref |-> Len(H.node) + 1]

\* an assignment of the elements of an existing array: index assignment, push,
\* sort in place
setArray(H, ref, refs) == [H EXCEPT !.arr[ref] = refs]

\* updatedNodes = currentNodes: the same array under another name
sharedArray(H, ref) == [h |-> H, ref |-> ref]

\* [...currentNodes]: a new array with the same elements
copyArray(H, ref) == allocArray(H, H.arr[ref])

\* Array.prototype.sort with the comparator of the source, on node references
sortRefs(H, refs) ==
  LET keyed == [i \in DOMAIN refs |->
                  [ref |-> refs[i], name |-> H.node[refs[i]].name, type |-> H.node[refs[i]].type]]
      sorted == sortNodes(keyed)
  IN [i \in DOMAIN sorted |-> sorted[i].ref]

\* App.tsx insertRecursive on the heap: the heap it leaves and the reference
\* it returns
RECURSIVE insertRecursiveHeap(_, _, _, _)
insertRecursiveHeap(H, currentNodes, currentDepth, filePath) ==
  LET parts == SubSeq(filePath, 1, Len(filePath) - 1)
      fileName == filePath[Len(filePath)]
      level == H.arr[currentNodes]
  IN IF currentDepth = Len(parts)
     THEN LET existingIndex ==
                findIndex([i \in 1..Len(level) |-> H.node[level[i]].name = fileName])
          IN IF existingIndex # 0 THEN [h |-> H, ref |-> currentNodes]
             ELSE LET newNode == allocNode(H, [path |-> filePath, name |-> fileName,
                                               type |-> "blob", url |-> FALSE, children |-> 0])
                      spread == copyArray(newNode.h, currentNodes)
                      pushed == setArray(spread.h, spread.ref,
                                         Append(spread.h.arr[spread.ref], newNode.ref))
                  IN [h |-> setArray(pushed, spread.ref, sortRefs(pushed, pushed.arr[spread.ref])),
                      ref |-> spread.ref]
     ELSE LET folderName == parts[currentDepth + 1]
              folderIndex ==
                findIndex([i \in 1..Len(level) |->
                             H.node[level[i]].name = folderName /\ H.node[level[i]].type = "tree"])
              updatedNodes == copyArray(H, currentNodes)
          IN IF folderIndex # 0
             THEN LET folder == updatedNodes.h.node[updatedNodes.h.arr[updatedNodes.ref][folderIndex]]
                      kids == IF folder.children # 0
                              THEN [h |-> updatedNodes.h, ref |-> folder.children]
                              ELSE allocArray(updatedNodes.h, <<>>)
                      updatedChildren ==
                        insertRecursiveHeap(kids.h, kids.ref, currentDepth + 1, filePath)
                      replaced == allocNode(updatedChildren.h,
                                            [folder EXCEPT !.children = updatedChildren.ref])
                  IN [h |-> setArray(replaced.h, updatedNodes.ref,
                                     [replaced.h.arr[updatedNodes.ref] EXCEPT
                                        ![folderIndex] = replaced.ref]),
                      ref |-> updatedNodes.ref]
             ELSE LET empty == allocArray(updatedNodes.h, <<>>)
                      newFolder == allocNode(empty.h,
                                     [path |-> SubSeq(filePath, 1, currentDepth + 1),
                                      name |-> folderName, type |-> "tree", url |-> FALSE,
                                      children |-> empty.ref])
                      argument == allocArray(newFolder.h, <<>>)
                      inserted ==
                        insertRecursiveHeap(argument.h, argument.ref, currentDepth + 1, filePath)
                      assigned == [inserted.h EXCEPT
                                     !.node[newFolder.ref].children = inserted.ref]
                      pushed == setArray(assigned, updatedNodes.ref,
                                         Append(assigned.arr[updatedNodes.ref], newFolder.ref))
                  IN [h |-> setArray(pushed, updatedNodes.ref,
                                     sortRefs(pushed, pushed.arr[updatedNodes.ref])),
                      ref |-> updatedNodes.ref]

\* App.tsx insertFileIntoTree on the heap
insertFileIntoTreeHeap(H, nodes, filePath) == insertRecursiveHeap(H, nodes, 0, filePath)

\* a tree as the heap holds it: the heap with the tree stored, and the
\* reference of its top array; a blob has no children array
RECURSIVE storeNodes(_, _)
storeNodes(H, nodes) ==
  IF nodes = <<>> THEN [h |-> H, refs |-> <<>>]
  ELSE LET front == storeNodes(H, SubSeq(nodes, 1, Len(nodes) - 1))
           n == nodes[Len(nodes)]
           kids == IF n.type = "tree"
                   THEN LET below == storeNodes(front.h, n.children)
                        IN allocArray(below.h, below.refs)
                   ELSE [h |-> front.h, ref |-> 0]
           object == allocNode(kids.h, [n EXCEPT !.children = kids.ref])
       IN [h |-> object.h, refs |-> Append(front.refs, object.ref)]

storeTree(H, nodes) ==
  LET stored == storeNodes(H, nodes) IN allocArray(stored.h, stored.refs)

\* the tree that is reachable from an array reference
RECURSIVE loadTree(_, _)
loadTree(H, ref) ==
  IF ref = 0 THEN <<>>
  ELSE [i \in 1..Len(H.arr[ref]) |->
          [H.node[H.arr[ref][i]] EXCEPT !.children = loadTree(H, @)]]

\* App.tsx findNode inside handleFetchFileForAI: depth-first, first match;
\* the result is <<node>> or <<>> (null)
RECURSIVE findNode(_, _)
findNode(nodes, targetPath) ==
  IF nodes = <<>> THEN <<>>
  ELSE LET node == Head(nodes)
       IN IF node.path = targetPath THEN <<node>>
          ELSE LET found == IF node.type = "tree" THEN findNode(node.children, targetPath) ELSE <<>>
               IN IF found # <<>> THEN found ELSE findNode(Tail(nodes), targetPath)

\* an item of data.tree, the flat listing the git trees API returns
ListItem(path, type) == [path |-> path, type |-> type]

\* fetchRepoTree whose second pass tests map[parentPath] alone: an item is
\* pushed to the children of its parent whatever the parent's kind
RECURSIVE buildLevelAnyParent(_, _)
buildLevelAnyParent(listing, parentPath) ==
  LET IsChild(item) == /\ Len(item.path) = Len(parentPath) + 1
                       /\ SubSeq(item.path, 1, Len(parentPath)) = parentPath
      items == SelectSeq(listing, IsChild)
      node(item) == [path |-> item.path, name |-> item.path[Len(item.path)], type |-> item.type,
                     url |-> TRUE, children |-> buildLevelAnyParent(listing, item.path)]
  IN sortNodes([i \in 1..Len(items) |-> node(items[i])])

\* services/github.ts fetchRepoTree, both passes and the sort, for the level
\* under parentPath: the nodes of the items whose parent is parentPath, each
\* as map holds it (the last item of its path), a tree-kind node with the
\* level under it as children; an item whose parent is not a tree-kind node
\* of the map is in no level
RECURSIVE buildLevel(_, _)
buildLevel(listing, parentPath) ==
  LET IsChild(item) == /\ Len(item.path) = Len(parentPath) + 1
                       /\ SubSeq(item.path, 1, Len(parentPath)) = parentPath
      items == SelectSeq(listing, IsChild)
      map(path) == listing[CHOOSE i \in DOMAIN listing :
                              /\ listing[i].path = path
                              /\ \A j \in DOMAIN listing : listing[j].path = path => j <= i]
      node(item) == IF map(item.path).type = "tree"
                    THEN TreeNode(item.path, TRUE, buildLevel(listing, item.path))
                    ELSE BlobNode(item.path, TRUE)
  IN sortNodes([i \in 1..Len(items) |-> node(items[i])])

\* services/github.ts fetchRepoTree: the nested, sorted tree of a listing
fetchRepoTree(listing) == buildLevel(listing, <<>>)

\* the tree fetchRepoTree returns for the loaded repository: one file, a
InitTree == <<BlobNode(PathA, TRUE)>>


(* ------------------------------- state --------------------------------- *)
VARIABLES
  fileTree,       \* App.tsx useState<FileNode[]>
  filesCache,     \* App.tsx useState<Record<string,string>>: the cache tier
  modifiedFiles,  \* App.tsx useState<Record<string,string>>: the local-edit tier
  selectedFile,   \* App.tsx useState<FileContent | null>: <<>> or <<record>>
  selFetch,       \* paths whose fetch, started by handleSelectFile, is pending
  modifying,      \* CodeViewer handleAiModify in flight: <<>> or <<path it will write>>
  isStreaming,    \* App.tsx useState(false)
  messages,       \* App.tsx useState<ChatMessage[]>: the conversation history
  closure,        \* the state values the running handleSendMessage closed over
  pc,             \* position of the engine run (createChatStream's generator)
  sent,           \* the requests chat.sendMessageStream was called with, in order
  stream,         \* per request: "pending" | "open" | "consumed", its response stream
  chunkNo,        \* chunks the stream being iterated has delivered
  rd,             \* the request whose response stream the engine iterates
  toolCalled,     \* services/ai.ts local of the while loop
  calls,          \* c.functionCalls still to be handled in the current chunk
  call,           \* the call being handled
  out,            \* everything the generator yielded, as consumed by the host
  nextId,         \* next function-call id the collaborator hands out
  consumer,       \* "iterating" | "stopped": the for-await loop over the generator
  runs,           \* engine runs started in this session
  events,         \* user actions performed in this session
  turnCalls,      \* history: the calls received so far in the current turn
  executed,       \* history: ids of the calls whose execution has a result
  trk,            \* history, per path: the set/discard performed last on the overlay
  lastGet,        \* history: the last completed handleFetchFileForAI call
  runWrites,      \* history, per path: code the run's last update_file wrote
  notified,       \* history: the calls the run handed to onToolCall, in order
  submitted,      \* history: the last form submission and how many there were
  load,           \* position and flags of loadRepo (App.tsx loading, error)
  listing,        \* the listing the tree was built from (data.tree of the response)
  commit,         \* position and locals of commitFileToGitHub
  remoteSha,      \* per path: version of the file in the remote repository, 0 if absent
  overlap,        \* a run started while another was active: "none" | "active" | "ended"
  lastSelect      \* history: the latest call of handleSelectFile

vars == <<fileTree, filesCache, modifiedFiles, selectedFile, selFetch, modifying, isStreaming,
          messages, closure, pc, sent, stream, chunkNo, rd, toolCalled, calls, call, out, nextId,
          consumer, runs, events, turnCalls, executed, trk, lastGet, runWrites,
          notified, submitted, load, listing, commit, remoteSha, overlap, lastSelect>>

sideVars == <<submitted, load, listing, commit, remoteSha, overlap, lastSelect>>
appVars == <<fileTree, filesCache, modifiedFiles, selectedFile, selFetch, modifying>>
engineVars == <<pc, sent, stream, chunkNo, rd, toolCalled, calls, call, out, nextId,
                turnCalls, executed>>

EmptyRecord == [p \in Paths |-> undefined]
NoClosure == [modifiedFiles |-> EmptyRecord, filesCache |-> EmptyRecord,
              fileTree |-> <<>>, selectedFile |-> <<>>]
NoTrack == [st |-> "none", c |-> undefined, pre |-> undefined]
NoInfo == [trk |-> NoTrack, fresh |-> FALSE, liveModified |-> undefined,
           liveCache |-> undefined, inTree |-> FALSE, hasUrl |-> FALSE, served |-> "none"]
NoCall == [id |-> 0, name |-> "none", path |-> <<>>, info |-> NoInfo]
NoGet == [path |-> <<>>, kind |-> "none", content |-> undefined, response |-> undefined,
          info |-> NoInfo, cacheBefore |-> undefined, cacheAfter |-> undefined,
          runWrite |-> undefined]

\* no file was selected yet
NoSelect == [path |-> <<>>, pending |-> {}]

\* no form was submitted yet
NoSubmission == [kind |-> "none", input |-> <<>>, n |-> 0]
\* loadRepo is not running, App.tsx useState: loading false, error null
NoLoad == [pc |-> "idle", loading |-> FALSE, error |-> FALSE, requests |-> 0, accepted |-> 0]
\* commitFileToGitHub was not called
NoCommit == [pc |-> "idle", path |-> <<>>, sha |-> 0, lookup |-> "none", log |-> <<>>]
\* the listing of the repository a session starts with
InitListing == <<ListItem(PathA, "blob")>>

ToolNames == {"read_file", "update_file", "other"}
Declared(name) == name \in {"read_file", "update_file"}

Init ==
  /\ fileTree = InitTree
  /\ filesCache = EmptyRecord
  /\ modifiedFiles = EmptyRecord
  /\ selectedFile = <<>>
  /\ selFetch = {}
  /\ modifying = <<>>
  /\ isStreaming = FALSE
  /\ messages = <<>>
  /\ closure = NoClosure
  /\ pc = "idle"
  /\ sent = <<>>
  /\ stream = <<>>
  /\ chunkNo = 0
  /\ rd = 0
  /\ toolCalled = FALSE
  /\ calls = <<>>
  /\ call = NoCall
  /\ out = <<>>
  /\ nextId = 1
  /\ consumer = "iterating"
  /\ runs = 0
  /\ events = 0
  /\ turnCalls = <<>>
  /\ executed = {}
  /\ trk = [p \in Paths |-> NoTrack]
  /\ lastGet = NoGet
  /\ runWrites = EmptyRecord
  /\ notified = <<>>
  /\ submitted = NoSubmission
  /\ load = NoLoad
  /\ commit = NoCommit
  /\ remoteSha = [p \in Paths |-> 0]
  /\ overlap = "none"
  /\ lastSelect = NoSelect
  /\ listing = InitListing

\* no engine run is in progress
Resting == pc \in {"idle", "done", "failed"}
\* the run waits for the network (macrotask boundary): host events may interleave
AtNetworkWait == pc \in {"await", "chunk", "readFetch"}
\* the generator is suspended at a yield, until the consumer asks for the next item
AtYield == pc \in {"afterText", "readExec", "updSend"}


(* ------------------------- file-state overlay -------------------------- *)
\* every node of a tree, parents before children
RECURSIVE allNodes(_)
allNodes(nodes) ==
  IF nodes = <<>> THEN {}
  ELSE {Head(nodes)} \cup allNodes(Head(nodes).children) \cup allNodes(Tail(nodes))

\* history: what the cache tier, else the repository, holds for a path
TierValue(path) ==
  IF filesCache[path] # undefined THEN filesCache[path]
  ELSE LET node == findNode(fileTree, path)
       IN IF node # <<>> /\ node[1].url THEN RemoteContent(path) ELSE undefined

\* App.tsx updateFileContent: set(path, newContent)
updateFileContent(path, newContent) ==
  /\ modifiedFiles' = [modifiedFiles EXCEPT ![path] = newContent]
  /\ filesCache' = [filesCache EXCEPT ![path] = newContent]
  /\ trk' = [trk EXCEPT ![path] = [st |-> "set", c |-> newContent, pre |-> TierValue(path)]]

\* App.tsx discardFileChanges: discard(path)
discardFileChanges(path) ==
  /\ modifiedFiles' = [modifiedFiles EXCEPT ![path] = undefined]
  /\ trk' = [trk EXCEPT ![path] =
               IF @.st = "set" THEN [@ EXCEPT !.st = "discarded"] ELSE NoTrack]
  /\ UNCHANGED filesCache

(* ------------------------------ host events ---------------------------- *)
\* a host event (click, fetch completion) can run: no engine run is in
\* progress, or the run waits for the network, or it was abandoned
HostTurn == Resting \/ AtNetworkWait \/ consumer = "stopped"

FileContent(path, content, loading, error) ==
  <<[path |-> path, content |-> content, loading |-> loading, error |-> error]>>

\* App.tsx handleSelectFile, up to its await; lastSelect keeps the path of
\* the call and, when it awaits a fetch, the fetches pending when it started
handleSelectFile(node) ==
  /\ node.type # "tree"
  /\ lastSelect' = [path |-> node.path,
                    pending |-> IF ~Truthy(filesCache[node.path]) /\ node.url
                                THEN selFetch ELSE {}]
  /\ IF Truthy(filesCache[node.path])
     THEN /\ selectedFile' = FileContent(node.path, filesCache[node.path], FALSE, FALSE)
          /\ UNCHANGED selFetch
     ELSE IF node.url
     THEN /\ selectedFile' = FileContent(node.path,
                 IF selectedFile # <<>> /\ selectedFile[1].path = node.path
                 THEN selectedFile[1].content ELSE Empty, TRUE, FALSE)
          /\ selFetch' = selFetch \cup {node.path}
     ELSE /\ selectedFile' = FileContent(node.path,
                 IF Truthy(modifiedFiles[node.path]) THEN modifiedFiles[node.path] ELSE Empty,
                 FALSE, FALSE)
          /\ UNCHANGED selFetch

SelectFile ==
  /\ HostTurn
  /\ events < MaxUserEvents
  /\ events' = events + 1
  /\ runs' = runs
  /\ \E node \in allNodes(fileTree) : handleSelectFile(node)
  /\ UNCHANGED <<messages, fileTree, filesCache, modifiedFiles, modifying, isStreaming, closure,
                 engineVars, consumer, trk, lastGet, runWrites>>
  /\ UNCHANGED <<notified, submitted, load, listing, commit, remoteSha, overlap>>

\* App.tsx handleSelectFile, after its await of fetchFileContent
SelectFetchDone ==
  /\ HostTurn
  /\ UNCHANGED <<runs, events>>
  /\ \E path \in selFetch, ok \in BOOLEAN :
       /\ selFetch' = selFetch \ {path}
       /\ IF ok
          THEN /\ filesCache' = [filesCache EXCEPT ![path] = RemoteContent(path)]
               /\ selectedFile' = FileContent(path, RemoteContent(path), FALSE, FALSE)
          ELSE /\ selectedFile' = FileContent(path, Empty, FALSE, TRUE)
               /\ UNCHANGED filesCache
  /\ UNCHANGED <<messages, fileTree, modifiedFiles, modifying, isStreaming, closure,
                 engineVars, consumer, trk, lastGet, runWrites>>
  /\ UNCHANGED <<notified, sideVars>>

\* the code viewer shows the selected file (not loading, no error)
FileShown == selectedFile # <<>> /\ ~selectedFile[1].loading /\ ~selectedFile[1].error

\* CodeViewer.tsx handleAiModify, up to its await: the onUpdateContent it
\* will call is the one of this render, bound to the file selected now
StartAiModify ==
  /\ HostTurn
  /\ events < MaxUserEvents
  /\ events' = events + 1
  /\ runs' = runs
  /\ FileShown
  /\ modifying = <<>>
  /\ modifying' = <<selectedFile[1].path>>
  /\ UNCHANGED <<messages, fileTree, filesCache, modifiedFiles, selectedFile, selFetch, isStreaming,
                 closure, engineVars, consumer, trk, lastGet, runWrites>>
  /\ UNCHANGED <<notified, sideVars>>

\* CodeViewer.tsx handleAiModify, after its await: onUpdateContent(newCode),
\* or the catch branch when modifyCode failed
FinishAiModify ==
  /\ HostTurn
  /\ UNCHANGED <<runs, events>>
  /\ modifying # <<>>
  /\ modifying' = <<>>
  /\ \/ \E code \in Codes :
          /\ updateFileContent(modifying[1], code)
          /\ runWrites' = [runWrites EXCEPT ![modifying[1]] = undefined]
     \/ UNCHANGED <<modifiedFiles, filesCache, trk, runWrites>>
  /\ UNCHANGED <<messages, fileTree, selectedFile, selFetch, isStreaming, closure,
                 engineVars, consumer, lastGet>>
  /\ UNCHANGED <<notified, sideVars>>

\* App.tsx onDiscardChanges; the button is rendered when modifiedContent is truthy
DiscardChanges ==
  /\ HostTurn
  /\ events < MaxUserEvents
  /\ events' = events + 1
  /\ runs' = runs
  /\ FileShown
  /\ Truthy(modifiedFiles[selectedFile[1].path])
  /\ discardFileChanges(selectedFile[1].path)
  /\ runWrites' = [runWrites EXCEPT ![selectedFile[1].path] = undefined]
  /\ UNCHANGED <<messages, fileTree, selectedFile, selFetch, modifying, isStreaming, closure,
                 engineVars, consumer, lastGet>>
  /\ UNCHANGED <<notified, sideVars>>


(* ------------------------- conversation engine ------------------------- *)
Request(kind, parts) == [kind |-> kind, parts |-> parts]
Item(kind, id, path) == [kind |-> kind, id |-> id, path |-> path]

\* types.ts ChatMessage; the text is the sequence of the fragments it was
\* built from
ChatMessage(id, role, text, streaming) ==
  [id |-> id, role |-> role, text |-> text, isStreaming |-> streaming]
\* the text the user typed
UserText == <<Item("typed", 0, <<>>)>>
\* App.tsx handleSendMessage, catch: 'Sorry, I encountered an error ...'
ErrorText == <<Item("sorry", 0, <<>>)>>

\* App.tsx handleSendMessage: botMsgId = (Date.now() + 1).toString(), a local of
\* the run; user, answer and error message of a run have distinct ids
botMsgId == <<runs, "bot">>

\* setBotText with text: chunk in place of text: fullResponse: the message
\* shows the last item only
setBotTextChunk(fullResponse) ==
  [i \in DOMAIN messages |->
     IF messages[i].id = botMsgId
     THEN [messages[i] EXCEPT !.text = SubSeq(fullResponse, Len(fullResponse), Len(fullResponse))]
     ELSE messages[i]]

\* App.tsx handleSendMessage, body of the for-await: the message of this run
\* (the one appended last) gets the whole response so far as its text
setBotText(fullResponse) ==
  [i \in DOMAIN messages |->
     IF messages[i].id = botMsgId THEN [messages[i] EXCEPT !.text = fullResponse]
     ELSE messages[i]]

\* the sequences of tool names one chunk's functionCalls may carry
CallNames == UNION {[1..n -> ToolNames] : n \in 0..MaxCalls}

\* GenerateContentResponse as the engine reads it: has it text, the names of
\* its functionCalls, is it the last chunk of its stream
ChunkShapes == [hasText : BOOLEAN, names : CallNames, last : BOOLEAN]

\* a collaborator that answers each request with one chunk without text, and
\* makes at most one call in a run
PlainShapes == {c \in ChunkShapes : /\ ~c.hasText /\ c.last
                                    /\ Len(c.names) <= (IF nextId = 1 THEN 1 ELSE 0)}

\* chat.sendMessageStream({message}): the request goes out and
\* currentSendPromise becomes the promise of its response stream
sendMessageStream(message) ==
  /\ sent' = Append(sent, message)
  /\ stream' = Append(stream, "pending")

\* App.tsx handleSendMessage up to its for-await, services/ai.ts
\* createChatStream and the generator's first statement
SendMessage ==
  /\ Resting
  /\ consumer = "iterating"
  /\ runs < MaxRuns
  /\ runs' = runs + 1
  /\ messages' = messages \o <<ChatMessage(<<runs', "user">>, "user", UserText, FALSE),
                               ChatMessage(<<runs', "bot">>, "model", <<>>, TRUE)>>
  /\ isStreaming' = TRUE
  /\ closure' = [modifiedFiles |-> modifiedFiles, filesCache |-> filesCache,
                 fileTree |-> fileTree, selectedFile |-> selectedFile]
  /\ sent' = <<Request("message", <<>>)>>
  /\ stream' = <<"pending">>
  /\ chunkNo' = 0
  /\ rd' = 0
  /\ toolCalled' = FALSE
  /\ calls' = <<>>
  /\ call' = NoCall
  /\ out' = <<>>
  /\ nextId' = 1
  /\ turnCalls' = <<>>
  /\ executed' = {}
  /\ lastGet' = NoGet
  /\ runWrites' = EmptyRecord
  /\ pc' = "await"
  /\ UNCHANGED <<appVars, consumer, events, trk>>
  /\ notified' = <<>>
  /\ UNCHANGED <<overlap, lastSelect, load, listing, commit, remoteSha>>

\* RunFails with a catch that replaces the unfinished answer by the error
\* message instead of appending to the history
RunFailsDropsAnswer ==
  /\ pc' = "failed"
  /\ isStreaming' = FALSE
  /\ closure' = NoClosure
  /\ messages' = Append(SubSeq(messages, 1, Len(messages) - 1),
                        ChatMessage(<<runs, "error">>, "model", ErrorText, FALSE))

\* the generator throws: handleSendMessage's catch and finally
RunFails ==
  /\ pc' = "failed"
  /\ isStreaming' = FALSE
  /\ closure' = NoClosure
  /\ messages' = Append(messages, ChatMessage(<<runs, "error">>, "model", ErrorText, FALSE))

\* the generator returns: the for-await ends, then handleSendMessage's finally
RunEnds ==
  /\ pc' = "done"
  /\ isStreaming' = FALSE
  /\ closure' = NoClosure
  /\ messages' = [i \in DOMAIN messages |->
                    IF messages[i].id = botMsgId THEN [messages[i] EXCEPT !.isStreaming = FALSE]
                    ELSE messages[i]]

\* AwaitStream with toolCalled declared outside the while loop: the flag of
\* an earlier turn is still set when the next turn is read
AwaitStreamKeepsFlag ==
  /\ pc = "await"
  /\ consumer = "iterating"
  /\ \/ /\ rd' = Len(sent)
        /\ toolCalled' = toolCalled
        /\ turnCalls' = <<>>
        /\ stream' = [stream EXCEPT ![Len(sent)] = IF @ = "pending" THEN "open" ELSE @]
        /\ chunkNo' = IF stream[Len(sent)] = "pending" THEN 0 ELSE chunkNo
        /\ pc' = "chunk"
        /\ UNCHANGED <<isStreaming, closure, messages>>
     \/ /\ stream[Len(sent)] = "pending"
        /\ RunFails
        /\ UNCHANGED <<rd, toolCalled, turnCalls, stream, chunkNo>>
  /\ UNCHANGED <<appVars, sent, calls, call, out, nextId, consumer, runs, events, executed,
                 trk, lastGet, runWrites>>
  /\ UNCHANGED <<notified, sideVars>>

\* services/ai.ts: const stream = await currentSendPromise; let toolCalled = false
AwaitStream ==
  /\ pc = "await"
  /\ consumer = "iterating"
  /\ \/ /\ rd' = Len(sent)
        /\ toolCalled' = FALSE
        /\ turnCalls' = <<>>
        /\ stream' = [stream EXCEPT ![Len(sent)] = IF @ = "pending" THEN "open" ELSE @]
        /\ chunkNo' = IF stream[Len(sent)] = "pending" THEN 0 ELSE chunkNo
        /\ pc' = "chunk"
        /\ UNCHANGED <<isStreaming, closure, messages>>
     \/ /\ stream[Len(sent)] = "pending"
        /\ RunFails
        /\ UNCHANGED <<rd, toolCalled, turnCalls, stream, chunkNo>>
  /\ UNCHANGED <<appVars, sent, calls, call, out, nextId, consumer, runs, events, executed,
                 trk, lastGet, runWrites>>
  /\ UNCHANGED <<notified, sideVars>>

\* services/ai.ts: the for-await finds the stream at its end
StreamEnd ==
  /\ pc = "chunk"
  /\ consumer = "iterating"
  /\ stream[rd] = "consumed"
  /\ IF toolCalled
     THEN pc' = "await" /\ UNCHANGED <<isStreaming, closure, messages>>
     ELSE RunEnds
  /\ UNCHANGED <<appVars, sent, stream, chunkNo, rd, toolCalled, calls, call, out, nextId,
                 consumer, runs, events, turnCalls, executed, trk, lastGet, runWrites>>
  /\ UNCHANGED <<notified, sideVars>>

\* fullResponse += chunk for a text fragment: adjacent fragments are one text
AppendText(items) ==
  IF items # <<>> /\ items[Len(items)].kind = "text" THEN items
  ELSE Append(items, Item("text", 0, <<>>))

\* services/ai.ts: the for-await receives a chunk, one of shapes; yield
\* c.text when it has text; toolCalled = true when it has function calls
ReceiveChunk(shapes) ==
  /\ pc = "chunk"
  /\ consumer = "iterating"
  /\ stream[rd] = "open"
  /\ \E c \in shapes :
       /\ nextId - 1 + Len(c.names) <= MaxCalls
       /\ c.last \/ chunkNo + 1 < MaxChunks
       /\ stream' = [stream EXCEPT ![rd] = IF c.last THEN "consumed" ELSE "open"]
       /\ chunkNo' = chunkNo + 1
       /\ calls' = [i \in 1..Len(c.names) |-> [id |-> nextId + i - 1, name |-> c.names[i]]]
       /\ nextId' = nextId + Len(c.names)
       /\ turnCalls' = turnCalls \o calls'
       /\ toolCalled' = (toolCalled \/ Len(c.names) > 0)
       /\ IF c.hasText
          THEN out' = AppendText(out) /\ pc' = "afterText" /\ messages' = setBotText(out')
          ELSE out' = out /\ pc' = "calls" /\ messages' = messages
  /\ UNCHANGED <<appVars, isStreaming, closure, sent, rd, call, consumer, runs, events,
                 executed, trk, lastGet, runWrites>>
  /\ UNCHANGED <<notified, sideVars>>

NextChunk == ReceiveChunk(ChunkShapes)

PlainChunk == ReceiveChunk(PlainShapes)

\* the transport fails while the stream is being read
StreamFails ==
  /\ pc = "chunk"
  /\ consumer = "iterating"
  /\ stream[rd] = "open"
  /\ RunFails
  /\ UNCHANGED <<appVars, sent, stream, chunkNo, rd, toolCalled, calls, call, out, nextId,
                 consumer, runs, events, turnCalls, executed, trk, lastGet, runWrites>>
  /\ UNCHANGED <<notified, sideVars>>

\* the loop over c.functionCalls is where the next call is taken
AtCalls == pc \in {"afterText", "calls"} /\ consumer = "iterating"

\* services/ai.ts: the loop over c.functionCalls is over
EndOfChunk ==
  /\ AtCalls
  /\ calls = <<>>
  /\ pc' = "chunk"
  /\ UNCHANGED <<messages, chunkNo, runs, events, appVars, isStreaming, closure, sent, stream, rd, toolCalled, calls, call,
                 out, nextId, consumer, turnCalls, executed, trk, lastGet, runWrites>>
  /\ UNCHANGED <<notified, sideVars>>

\* DispatchOther with an answer to the collaborator: the unknown call is
\* reported back in a functionResponse of its own
DispatchOtherAnswers ==
  /\ AtCalls
  /\ calls # <<>>
  /\ ~Declared(Head(calls).name)
  /\ sendMessageStream(Request("functionResponse",
        <<[name |-> Head(calls).name, id |-> Head(calls).id,
           response |-> [kind |-> "error", content |-> undefined]]>>))
  /\ calls' = Tail(calls)
  /\ pc' = "calls"
  /\ UNCHANGED <<messages, chunkNo, runs, events, appVars, isStreaming, closure, rd, toolCalled, call,
                 out, nextId, consumer, turnCalls, executed, trk, lastGet, runWrites>>
  /\ UNCHANGED <<notified, sideVars>>

\* services/ai.ts: a call that is neither read_file nor update_file
DispatchOther ==
  /\ AtCalls
  /\ calls # <<>>
  /\ ~Declared(Head(calls).name)
  /\ calls' = Tail(calls)
  /\ pc' = "calls"
  /\ UNCHANGED <<messages, chunkNo, runs, events, appVars, isStreaming, closure, sent, stream, rd, toolCalled, call,
                 out, nextId, consumer, turnCalls, executed, trk, lastGet, runWrites>>
  /\ UNCHANGED <<notified, sideVars>>

\* DispatchRead without the yield of the marker: the read starts at once
DispatchReadSilent ==
  /\ AtCalls
  /\ calls # <<>>
  /\ Head(calls).name = "read_file"
  /\ \E path \in Paths :
       call' = [id |-> Head(calls).id, name |-> "read_file", path |-> path, info |-> NoInfo]
  /\ calls' = Tail(calls)
  /\ pc' = "readExec"
  /\ UNCHANGED <<messages, out, chunkNo, runs, events, appVars, isStreaming, closure, sent,
                 stream, rd, toolCalled, nextId, consumer, turnCalls, executed, trk, lastGet,
                 runWrites>>
  /\ UNCHANGED <<notified, sideVars>>

\* services/ai.ts, read_file branch: yield the marker
DispatchRead ==
  /\ AtCalls
  /\ calls # <<>>
  /\ Head(calls).name = "read_file"
  /\ \E path \in Paths :
       /\ call' = [id |-> Head(calls).id, name |-> "read_file", path |-> path, info |-> NoInfo]
       /\ out' = Append(out, Item("read", Head(calls).id, path))
       /\ messages' = setBotText(out')
  /\ calls' = Tail(calls)
  /\ pc' = "readExec"
  /\ UNCHANGED <<chunkNo, runs, events, appVars, isStreaming, closure, sent, stream, rd, toolCalled,
                 nextId, consumer, turnCalls, executed, trk, lastGet, runWrites>>
  /\ UNCHANGED <<notified, sideVars>>

\* history: what a get of path sees when it starts
GetInfo(path) ==
  LET live == findNode(fileTree, path)
      seen == findNode(closure.fileTree, path)
  IN [trk |-> trk[path],
      fresh |-> /\ closure.modifiedFiles[path] = modifiedFiles[path]
                /\ closure.filesCache[path] = filesCache[path]
                /\ seen = live,
      liveModified |-> modifiedFiles[path],
      liveCache |-> filesCache[path],
      inTree |-> live # <<>>,
      hasUrl |-> live # <<>> /\ live[1].url,
      served |-> "none"]

\* history: a get of call.path completed
RecordGet(info, kind, content) ==
  /\ lastGet' = [path |-> call.path, kind |-> kind, content |-> content,
                 response |-> Slice(content, CAP), info |-> info,
                 cacheBefore |-> filesCache[call.path],
                 cacheAfter |-> filesCache'[call.path],
                 runWrite |-> runWrites[call.path]]
  /\ executed' = executed \cup {call.id}

\* services/ai.ts, read_file branch after the await: the functionResponse part
ReadResponse(content) ==
  Request("functionResponse",
          <<[name |-> "read_file", id |-> call.id,
             response |-> [kind |-> "content", content |-> Slice(content, CAP)]]>>)

\* ReadExec without the try/catch around onReadFile: the error thrown for a
\* path that is not in the tree leaves the generator
ReadExecThrows ==
  /\ pc = "readExec"
  /\ consumer = "iterating"
  /\ UNCHANGED <<chunkNo, runs, events, appVars, rd, toolCalled, calls, out, nextId,
                 consumer, turnCalls, runWrites>>
  /\ LET path == call.path
         info == GetInfo(path)
         node == findNode(closure.fileTree, path)
         Answer(kind, content) ==
           /\ sendMessageStream(ReadResponse(content))
           /\ RecordGet(info, kind, content)
           /\ pc' = "calls"
           /\ UNCHANGED <<call, isStreaming, closure, messages>>
     IN /\ trk' = [trk EXCEPT ![path] = NoTrack]
        /\ IF Truthy(closure.modifiedFiles[path])
           THEN Answer("content", closure.modifiedFiles[path])
           ELSE IF Truthy(closure.filesCache[path])
           THEN Answer("content", closure.filesCache[path])
           ELSE IF node = <<>>
           THEN RunFails /\ UNCHANGED <<sent, stream, lastGet, executed, call>>
           ELSE IF ~node[1].url
           THEN Answer("content", Empty)
           ELSE /\ call' = [call EXCEPT !.info = info]
                /\ pc' = "readFetch"
                /\ UNCHANGED <<sent, stream, lastGet, executed, isStreaming, closure, messages>>
  /\ UNCHANGED <<notified, sideVars>>

\* App.tsx handleFetchFileForAI up to its await (the closure's state), then
\* services/ai.ts: catch, functionResponse and sendMessageStream
ReadExec ==
  /\ pc = "readExec"
  /\ consumer = "iterating"
  /\ UNCHANGED <<messages, chunkNo, runs, events, appVars, isStreaming, closure, rd, toolCalled, calls, out, nextId,
                 consumer, turnCalls, runWrites>>
  /\ LET path == call.path
         info == GetInfo(path)
         node == findNode(closure.fileTree, path)
         Answer(kind, content) ==
           /\ sendMessageStream(ReadResponse(content))
           /\ RecordGet(info, kind, content)
           /\ pc' = "calls"
           /\ UNCHANGED call
     IN /\ trk' = [trk EXCEPT ![path] = NoTrack]
        /\ IF Truthy(closure.modifiedFiles[path])
           THEN Answer("content", closure.modifiedFiles[path])
           ELSE IF Truthy(closure.filesCache[path])
           THEN Answer("content", closure.filesCache[path])
           ELSE IF node = <<>>
           THEN Answer("error", ReadErrorContent)
           ELSE IF ~node[1].url
           THEN Answer("content", Empty)
           ELSE /\ call' = [call EXCEPT !.info = info]
                /\ pc' = "readFetch"
                /\ UNCHANGED <<sent, stream, lastGet, executed>>
  /\ UNCHANGED <<notified, sideVars>>

\* what the contents API answers to the fetch of a file: the status, and what
\* data.content holds: base64 of a text, base64 of bytes that are no UTF-8
\* text, something atob rejects, or nothing
Responses == [ok : BOOLEAN, body : {"text", "binary", "malformed", "none"}]

\* a repository that answers with the text of the file or not at all
PlainResponses == {r \in Responses : r.body = "text"}

\* TextDecoder('utf-8').decode of bytes that are no UTF-8 text: the decoder is
\* not fatal, every malformed sequence becomes U+FFFD
LossyContent == Str("\\uFFFD\\uFFFD", 2)

\* services/github.ts fetchFileContent, last return
DecodePlaceholder ==
  Str("Error: Could not decode file content. It might be binary or too large to preview.", 81)

\* services/github.ts fetchFileContent: whether it throws, else what it returns
fetchFileContent(path, response) ==
  IF ~response.ok THEN [raised |-> TRUE, content |-> undefined]
  ELSE [raised |-> FALSE,
        content |-> CASE response.body = "text" -> RemoteContent(path)
                      [] response.body = "binary" -> LossyContent
                      [] response.body = "malformed" -> DecodePlaceholder
                      [] OTHER -> Empty]

\* ReadFetch that stores the error text in the cache tier when the fetch fails
ReadFetchCachesError(responses) ==
  /\ pc = "readFetch"
  /\ consumer = "iterating"
  /\ \E response \in responses :
       LET fetched == fetchFileContent(call.path, response)
           info == [call.info EXCEPT !.served = IF response.ok THEN response.body ELSE "failed"]
       IN IF ~fetched.raised
          THEN /\ filesCache' = [filesCache EXCEPT ![call.path] = fetched.content]
               /\ sendMessageStream(ReadResponse(fetched.content))
               /\ RecordGet(info, "content", fetched.content)
          ELSE /\ filesCache' = [filesCache EXCEPT ![call.path] = ReadErrorContent]
               /\ sendMessageStream(ReadResponse(ReadErrorContent))
               /\ RecordGet(info, "error", ReadErrorContent)
  /\ pc' = "calls"
  /\ UNCHANGED <<messages, chunkNo, runs, events, fileTree, modifiedFiles, selectedFile, selFetch, modifying, isStreaming,
                 closure, rd, toolCalled, calls, call, out, nextId, consumer, turnCalls,
                 trk, runWrites>>
  /\ UNCHANGED <<notified, sideVars>>

\* App.tsx handleFetchFileForAI after its await of fetchFileContent, then
\* services/ai.ts: catch, functionResponse and sendMessageStream
ReadFetch(responses) ==
  /\ pc = "readFetch"
  /\ consumer = "iterating"
  /\ \E response \in responses :
       LET fetched == fetchFileContent(call.path, response)
           info == [call.info EXCEPT !.served = IF response.ok THEN response.body ELSE "failed"]
       IN IF ~fetched.raised
          THEN /\ filesCache' = [filesCache EXCEPT ![call.path] = fetched.content]
               /\ sendMessageStream(ReadResponse(fetched.content))
               /\ RecordGet(info, "content", fetched.content)
          ELSE /\ UNCHANGED filesCache
               /\ sendMessageStream(ReadResponse(ReadErrorContent))
               /\ RecordGet(info, "error", ReadErrorContent)
  /\ pc' = "calls"
  /\ UNCHANGED <<messages, chunkNo, runs, events, fileTree, modifiedFiles, selectedFile, selFetch, modifying, isStreaming,
                 closure, rd, toolCalled, calls, call, out, nextId, consumer, turnCalls,
                 trk, runWrites>>
  /\ UNCHANGED <<notified, sideVars>>

ReadFetchDone == ReadFetch(PlainResponses)

ReadFetchAny == ReadFetch(Responses)

\* App.tsx onToolCall: const targetPath = path || selectedFile?.path
resolvePath(path) ==
  IF path # <<>> THEN path
  ELSE IF closure.selectedFile # <<>> THEN closure.selectedFile[1].path
  ELSE <<>>

\* history: one invocation onToolCall(call) by the engine: the call's id and
\* arguments as the collaborator gave them, and the path the host wrote to
\* (<<>> when it wrote nothing)
Notification(id, path, code) ==
  [id |-> id, path |-> path, code |-> code, wrote |-> resolvePath(path)]

\* onToolCall without the setFileTree call: the overlay is written and the
\* tree is left as it was
onToolCallNoInsert(path, code) ==
  LET targetPath == IF path # <<>> THEN path
                    ELSE IF closure.selectedFile # <<>> THEN closure.selectedFile[1].path
                    ELSE <<>>
  IN IF targetPath # <<>>
     THEN /\ updateFileContent(targetPath, code)
          /\ fileTree' = fileTree
          /\ runWrites' = [runWrites EXCEPT ![targetPath] = code]
     ELSE UNCHANGED <<modifiedFiles, filesCache, trk, fileTree, runWrites>>

\* App.tsx onToolCall (the closure's selectedFile), for an update_file call
onToolCall(path, code) ==
  LET targetPath == IF path # <<>> THEN path
                    ELSE IF closure.selectedFile # <<>> THEN closure.selectedFile[1].path
                    ELSE <<>>
  IN IF targetPath # <<>>
     THEN /\ updateFileContent(targetPath, code)
          /\ fileTree' = insertFileIntoTree(fileTree, targetPath)
          /\ runWrites' = [runWrites EXCEPT ![targetPath] = code]
     ELSE UNCHANGED <<modifiedFiles, filesCache, trk, fileTree, runWrites>>

\* DispatchUpdate with the functionResponse sent before the marker is yielded
DispatchUpdateSendsFirst ==
  /\ AtCalls
  /\ calls # <<>>
  /\ Head(calls).name = "update_file"
  /\ \E path \in Paths \cup {<<>>}, code \in Codes :
       /\ onToolCall(path, code)
       /\ call' = [id |-> Head(calls).id, name |-> "update_file", path |-> path, info |-> NoInfo]
       /\ notified' = Append(notified, Notification(Head(calls).id, path, code))
       /\ out' = Append(out, Item("update", Head(calls).id, path))
       /\ messages' = setBotText(out')
  /\ sendMessageStream(Request("functionResponse",
        <<[name |-> "update_file", id |-> Head(calls).id,
           response |-> [kind |-> "result", content |-> undefined]]>>))
  /\ executed' = executed \cup {Head(calls).id}
  /\ calls' = Tail(calls)
  /\ pc' = "afterText"
  /\ UNCHANGED <<chunkNo, runs, events, selectedFile, selFetch, modifying, isStreaming,
                 closure, rd, toolCalled, nextId, consumer, turnCalls, lastGet>>
  /\ UNCHANGED sideVars

\* services/ai.ts, update_file branch: onToolCall(call), then yield the marker
DispatchUpdate ==
  /\ AtCalls
  /\ calls # <<>>
  /\ Head(calls).name = "update_file"
  /\ \E path \in Paths \cup {<<>>}, code \in Codes :
       /\ onToolCall(path, code)
       /\ call' = [id |-> Head(calls).id, name |-> "update_file", path |-> path, info |-> NoInfo]
       /\ notified' = Append(notified, Notification(Head(calls).id, path, code))
       /\ out' = Append(out, Item("update", Head(calls).id, path))
       /\ messages' = setBotText(out')
  /\ calls' = Tail(calls)
  /\ pc' = "updSend"
  /\ UNCHANGED <<chunkNo, runs, events, selectedFile, selFetch, modifying, isStreaming, closure, sent, stream,
                 rd, toolCalled, nextId, consumer, turnCalls, executed, lastGet>>
  /\ UNCHANGED sideVars

\* services/ai.ts, update_file branch after the yield: functionResponse and
\* sendMessageStream
UpdateSend ==
  /\ pc = "updSend"
  /\ consumer = "iterating"
  /\ sendMessageStream(Request("functionResponse",
        <<[name |-> "update_file", id |-> call.id,
           response |-> [kind |-> "result", content |-> undefined]]>>))
  /\ executed' = executed \cup {call.id}
  /\ pc' = "calls"
  /\ UNCHANGED <<messages, chunkNo, runs, events, appVars, isStreaming, closure, rd, toolCalled, calls, call, out, nextId,
                 consumer, turnCalls, trk, lastGet, runWrites>>
  /\ UNCHANGED <<notified, sideVars>>

\* the consumer abandons the generator at the item it consumed last
ConsumerStop ==
  /\ AtYield
  /\ consumer = "iterating"
  /\ consumer' = "stopped"
  /\ UNCHANGED <<messages, runs, events, appVars, isStreaming, closure, engineVars, trk, lastGet, runWrites>>
  /\ UNCHANGED <<notified, sideVars>>

(* --------------------------- tree synchronizer ------------------------- *)
\* items a listing may hold
MaxListing == 3

\* the items listings are made of
ListingItems ==
  {ListItem(<<"a">>, "blob"), ListItem(<<"d">>, "tree"), ListItem(<<"d">>, "blob"),
   ListItem(<<"d", "n">>, "blob"), ListItem(<<"d", "a">>, "blob"),
   ListItem(<<"n", "a">>, "blob")}

\* the listings without repeated paths, in any order
Listings ==
  {l \in UNION {[1..n -> ListingItems] : n \in 0..MaxListing} :
     \A i, j \in DOMAIN l : i # j => l[i].path # l[j].path}

\* the paths a file may be inserted at
TreePaths == {<<"a">>, <<"d">>, <<"n">>, <<"d", "a">>, <<"d", "n">>, <<"d", "d">>, <<"n", "a">>}

\* App.tsx loadRepo: the state once the repository of some listing is loaded
TreeInit ==
  /\ \E l \in Listings : listing = l /\ fileTree = fetchRepoTree(l)
  /\ filesCache = EmptyRecord
  /\ modifiedFiles = EmptyRecord
  /\ selectedFile = <<>>
  /\ selFetch = {}
  /\ modifying = <<>>
  /\ isStreaming = FALSE
  /\ messages = <<>>
  /\ closure = NoClosure
  /\ pc = "idle"
  /\ sent = <<>>
  /\ stream = <<>>
  /\ chunkNo = 0
  /\ rd = 0
  /\ toolCalled = FALSE
  /\ calls = <<>>
  /\ call = NoCall
  /\ out = <<>>
  /\ nextId = 1
  /\ consumer = "iterating"
  /\ runs = 0
  /\ events = 0
  /\ turnCalls = <<>>
  /\ executed = {}
  /\ trk = [p \in Paths |-> NoTrack]
  /\ lastGet = NoGet
  /\ runWrites = EmptyRecord
  /\ notified = <<>>
  /\ submitted = NoSubmission
  /\ load = NoLoad
  /\ commit = NoCommit
  /\ remoteSha = [p \in Paths |-> 0]
  /\ overlap = "none"
  /\ lastSelect = NoSelect

\* App.tsx onToolCall: setFileTree(prev => insertFileIntoTree(prev, targetPath))
TreeInsert ==
  /\ \E filePath \in TreePaths : fileTree' = insertFileIntoTree(fileTree, filePath)
  /\ UNCHANGED <<filesCache, modifiedFiles, selectedFile, selFetch, modifying, isStreaming,
                 messages, closure, engineVars, consumer, runs, events, trk, lastGet, runWrites>>
  /\ UNCHANGED <<notified, sideVars>>

(* --------------------------- repository load --------------------------- *)
MaxSubmits == 2
MaxLoads == 1
MaxLoadListing == 1

\* what the user typed as repository reference: the text, whether new URL
\* accepts it, and the hostname and non-empty path segments new URL gives
RepoUrl(text, parses, hostname, parts) ==
  [text |-> text, parses |-> parses, hostname |-> hostname, parts |-> parts]

RepoUrls ==
  {RepoUrl("", FALSE, "", <<>>),
   RepoUrl("owner/repo", FALSE, "", <<>>),
   RepoUrl("https://gitlab.com/owner/repo", TRUE, "gitlab.com", <<"owner", "repo">>),
   RepoUrl("https://github.com/owner", TRUE, "github.com", <<"owner">>),
   RepoUrl("https://github.com/owner/repo", TRUE, "github.com", <<"owner", "repo">>)}

\* parseRepoUrl that does not look at the hostname
parseRepoUrlAnyHost(url) ==
  IF ~url.parses THEN <<>>
  ELSE IF Len(url.parts) < 2 THEN <<>>
  ELSE <<[owner |-> url.parts[1], repo |-> url.parts[2]]>>

\* services/github.ts parseRepoUrl: <<>> for null
parseRepoUrl(url) ==
  IF ~url.parses THEN <<>>
  ELSE IF url.hostname # "github.com" THEN <<>>
  ELSE IF Len(url.parts) < 2 THEN <<>>
  ELSE <<[owner |-> url.parts[1], repo |-> url.parts[2]]>>

\* App.tsx loadRepo up to its first await. One load is accepted at a time, and
\* MaxLoads in all; no file of the listings is named readme.md.
LoadRepo ==
  /\ HostTurn
  /\ submitted.n < MaxSubmits
  /\ \E url \in RepoUrls :
       /\ submitted' = [kind |-> "load", input |-> url, n |-> submitted.n + 1]
       /\ IF url.text = ""
          THEN UNCHANGED <<load, fileTree, selectedFile, messages, modifiedFiles, filesCache, trk>>
          ELSE IF parseRepoUrl(url) = <<>>
          THEN /\ load' = [load EXCEPT !.error = TRUE]
               /\ UNCHANGED <<fileTree, selectedFile, messages, modifiedFiles, filesCache, trk>>
          ELSE /\ load.pc = "idle"
               /\ load.accepted < MaxLoads
               /\ load' = [pc |-> "details", loading |-> TRUE, error |-> FALSE,
                           requests |-> load.requests + 1, accepted |-> load.accepted + 1]
               /\ fileTree' = <<>>
               /\ selectedFile' = <<>>
               /\ messages' = <<>>
               /\ modifiedFiles' = EmptyRecord
               /\ filesCache' = EmptyRecord
               /\ trk' = [p \in Paths |-> NoTrack]
  /\ UNCHANGED <<selFetch, modifying, isStreaming, closure, engineVars, consumer, runs, events,
                 lastGet, runWrites, notified, overlap, lastSelect, listing, commit, remoteSha>>

\* App.tsx loadRepo: fetchRepoDetails settles; on success fetchRepoTree is called
LoadDetailsDone ==
  /\ HostTurn
  /\ load.pc = "details"
  /\ \/ load' = [load EXCEPT !.pc = "tree", !.requests = @ + 1]
     \/ load' = [load EXCEPT !.pc = "idle", !.error = TRUE, !.loading = FALSE]
  /\ UNCHANGED <<appVars, isStreaming, messages, closure, engineVars, consumer, runs, events,
                 trk, lastGet, runWrites, notified, overlap, lastSelect, submitted, listing, commit, remoteSha>>

\* the listings a load may receive: their files are among Paths
LoadListings ==
  {l \in Listings : /\ Len(l) <= MaxLoadListing
                    /\ \A i \in DOMAIN l : l[i].type = "blob" => l[i].path \in Paths}

\* App.tsx loadRepo: fetchRepoTree settles; setFileTree(tree), finally
LoadTreeDone ==
  /\ HostTurn
  /\ load.pc = "tree"
  /\ \/ /\ \E l \in LoadListings :
             listing' = l /\ fileTree' = fetchRepoTree(l)
        /\ load' = [load EXCEPT !.pc = "idle", !.loading = FALSE]
     \/ /\ load' = [load EXCEPT !.pc = "idle", !.error = TRUE, !.loading = FALSE]
        /\ UNCHANGED <<listing, fileTree>>
  /\ UNCHANGED <<filesCache, modifiedFiles, selectedFile, selFetch, modifying, isStreaming,
                 messages, closure, engineVars, consumer, runs, events, trk, lastGet, runWrites,
                 notified, overlap, lastSelect, submitted, commit, remoteSha>>

\* what the user typed in the chat box, and whether an image is attached
ChatInputs == [text : {Empty, Str(" ", 1), Str("q", 1)}, image : BOOLEAN]

\* String.prototype.trim on the inputs above
trim(s) == IF s.text = " " THEN Empty ELSE s

\* ChatPanel.tsx handleSubmit
handleSubmit ==
  /\ HostTurn
  /\ submitted.n < MaxSubmits
  /\ \E input \in ChatInputs :
       /\ submitted' = [kind |-> "chat", input |-> input, n |-> submitted.n + 1]
       /\ IF (~Truthy(trim(input.text)) /\ ~input.image) \/ isStreaming
          THEN UNCHANGED <<appVars, isStreaming, messages, closure, engineVars, consumer, runs,
                           events, trk, lastGet, runWrites, notified, overlap, lastSelect, load, listing, commit,
                           remoteSha>>
          ELSE SendMessage

(* -------------------------------- commit ------------------------------- *)
MaxCommits == 3

\* a request of commitFileToGitHub to the contents API; sha is the version
\* marker in the body of a PUT, 0 when the body has none
ContentsRequest(method, path, sha) == [method |-> method, path |-> path, sha |-> sha]

\* services/github.ts commitFileToGitHub, up to the await of the GET
CommitStart ==
  /\ commit.pc \in {"idle", "done", "failed"}
  /\ Cardinality({i \in DOMAIN commit.log : commit.log[i].method = "GET"}) < MaxCommits
  /\ \E path \in Paths :
       commit' = [pc |-> "lookup", path |-> path, sha |-> 0, lookup |-> "none",
                  log |-> Append(commit.log, ContentsRequest("GET", path, 0))]
  /\ UNCHANGED <<appVars, isStreaming, messages, closure, engineVars, consumer, runs, events,
                 trk, lastGet, runWrites, notified, overlap, lastSelect, submitted, load, listing, remoteSha>>

\* CommitLookupDone in which the body of the PUT never has the sha
CommitLookupDoneNoSha ==
  /\ commit.pc = "lookup"
  /\ \E response \in {"found", "missing", "failed"} :
       /\ response = "found" => remoteSha[commit.path] > 0
       /\ response = "missing" => remoteSha[commit.path] = 0
       /\ LET sha == IF response = "found" THEN remoteSha[commit.path] ELSE 0
          IN commit' = [commit EXCEPT
                          !.pc = "write", !.sha = sha, !.lookup = response,
                          !.log = Append(@, ContentsRequest("PUT", commit.path, 0))]
  /\ UNCHANGED <<appVars, isStreaming, messages, closure, engineVars, consumer, runs, events,
                 trk, lastGet, runWrites, notified, overlap, lastSelect, submitted, load, listing, remoteSha>>

\* services/github.ts commitFileToGitHub: the GET settles (ok with the file's
\* sha, 404, or another failure, which the catch or the test of ok swallows),
\* then the PUT is sent, its body with the sha when sha is truthy
CommitLookupDone ==
  /\ commit.pc = "lookup"
  /\ \E response \in {"found", "missing", "failed"} :
       /\ response = "found" => remoteSha[commit.path] > 0
       /\ response = "missing" => remoteSha[commit.path] = 0
       /\ LET sha == IF response = "found" THEN remoteSha[commit.path] ELSE 0
          IN commit' = [commit EXCEPT
                          !.pc = "write", !.sha = sha, !.lookup = response,
                          !.log = Append(@, ContentsRequest("PUT", commit.path,
                                                            IF sha # 0 THEN sha ELSE 0))]
  /\ UNCHANGED <<appVars, isStreaming, messages, closure, engineVars, consumer, runs, events,
                 trk, lastGet, runWrites, notified, overlap, lastSelect, submitted, load, listing, remoteSha>>

\* services/github.ts commitFileToGitHub: the PUT settles. The repository
\* takes the write when the sha of the body is the version it holds (none
\* for a new file); any PUT can fail, and then the function throws
CommitWriteDone ==
  /\ commit.pc = "write"
  /\ \/ /\ commit.log[Len(commit.log)].sha = remoteSha[commit.path]
        /\ remoteSha' = [remoteSha EXCEPT ![commit.path] = @ + 1]
        /\ commit' = [commit EXCEPT !.pc = "done"]
     \/ /\ remoteSha' = remoteSha
        /\ commit' = [commit EXCEPT !.pc = "failed"]
  /\ UNCHANGED <<appVars, isStreaming, messages, closure, engineVars, consumer, runs, events,
                 trk, lastGet, runWrites, notified, overlap, lastSelect, submitted, load, listing>>

(* --------------------------- overlapping runs -------------------------- *)
\* what the user typed in the form of the live app edit
EditPrompts == {Empty, Str(" ", 1), Str("q", 1)}

\* App.tsx handleGlobalAppEdit: handleSendMessage is called whether or not a
\* run is in progress. A run that starts while another is active is followed
\* to its start and its end only: its collaborator answers with an empty
\* stream or fails.
handleGlobalAppEdit ==
  /\ HostTurn
  /\ overlap = "none"
  /\ \E prompt \in EditPrompts :
       IF ~Truthy(trim(prompt)) THEN UNCHANGED vars
       ELSE IF Resting THEN SendMessage /\ UNCHANGED submitted
       ELSE /\ overlap' = "active"
            /\ messages' = messages \o
                 <<ChatMessage(<<runs, "user2">>, "user", UserText, FALSE),
                   ChatMessage(<<runs, "bot2">>, "model", <<>>, TRUE)>>
            /\ isStreaming' = TRUE
            /\ UNCHANGED <<appVars, closure, engineVars, consumer, runs, events, trk, lastGet,
                           runWrites, notified, submitted, load, listing, commit, remoteSha, lastSelect>>

\* App.tsx handleSendMessage of the overlapping run: the for-await ends and
\* the answer is finalized, or the generator throws and the catch appends
\* the error message; finally
OverlapEnds ==
  /\ HostTurn
  /\ overlap = "active"
  /\ overlap' = "ended"
  /\ isStreaming' = FALSE
  /\ \/ messages' = [i \in DOMAIN messages |->
                       IF messages[i].id = <<runs, "bot2">>
                       THEN [messages[i] EXCEPT !.isStreaming = FALSE] ELSE messages[i]]
     \/ messages' = Append(messages, ChatMessage(<<runs, "error2">>, "model", ErrorText, FALSE))
  /\ UNCHANGED <<appVars, closure, engineVars, consumer, runs, events, trk, lastGet,
                 runWrites, notified, submitted, load, listing, commit, remoteSha, lastSelect>>

\* the repositories a session is followed in: one file; a folder named as
\* that file; the file and a folder that holds a second file
RepoListings ==
  {<<ListItem(PathA, "blob")>>,
   <<ListItem(PathA, "tree")>>,
   <<ListItem(PathA, "blob"), ListItem(<<"d">>, "tree"), ListItem(PathN, "blob")>>}

\* App.tsx loadRepo: the state once one of these repositories is loaded
RepoInit ==
  /\ \E l \in RepoListings : listing = l /\ fileTree = fetchRepoTree(l)
  /\ filesCache = EmptyRecord
  /\ modifiedFiles = EmptyRecord
  /\ selectedFile = <<>>
  /\ selFetch = {}
  /\ modifying = <<>>
  /\ isStreaming = FALSE
  /\ messages = <<>>
  /\ closure = NoClosure
  /\ pc = "idle"
  /\ sent = <<>>
  /\ stream = <<>>
  /\ chunkNo = 0
  /\ rd = 0
  /\ toolCalled = FALSE
  /\ calls = <<>>
  /\ call = NoCall
  /\ out = <<>>
  /\ nextId = 1
  /\ consumer = "iterating"
  /\ runs = 0
  /\ events = 0
  /\ turnCalls = <<>>
  /\ executed = {}
  /\ trk = [p \in Paths |-> NoTrack]
  /\ lastGet = NoGet
  /\ runWrites = EmptyRecord
  /\ notified = <<>>
  /\ submitted = NoSubmission
  /\ load = NoLoad
  /\ commit = NoCommit
  /\ remoteSha = [p \in Paths |-> 0]
  /\ overlap = "none"
  /\ lastSelect = NoSelect

(* ---------------------------- specifications --------------------------- *)
\* the first user message of a session
FirstMessage == runs = 0 /\ SendMessage /\ UNCHANGED submitted

\* the steps of the generator, for a collaborator that streams chunks of shapes
RunSteps ==
  \/ AwaitStream \/ StreamEnd \/ StreamFails \/ EndOfChunk
  \/ DispatchOther \/ DispatchRead \/ ReadExec \/ ReadFetchDone
  \/ DispatchUpdate \/ UpdateSend

Engine == RunSteps \/ NextChunk

Next == FirstMessage \/ Engine

\* one engine run, the collaborator streaming any chunks, consumed to its end
Spec == Init /\ [][Next]_vars

\* the same run with a consumer that may stop iterating at any item
NextCancel == Next \/ ConsumerStop
SpecCancel == Init /\ [][NextCancel]_vars

\* the event loop runs every continuation that is ready
FairSpec == Spec /\ WF_vars(Engine)

Host ==
  \/ (SendMessage /\ UNCHANGED submitted) \/ SelectFile \/ SelectFetchDone
  \/ StartAiModify \/ FinishAiModify \/ DiscardChanges

\* a session: user actions and engine runs, the collaborator answering each
\* request with at most one call
NextSession == Host \/ RunSteps \/ PlainChunk
SpecSession == Init /\ [][NextSession]_vars

\* the tree of any listing, and files inserted into it one after the other
SpecTree == TreeInit /\ [][TreeInsert]_vars

(* ------------------------------- claims -------------------------------- *)
\* the ids of the calls of a declared tool among calls, in order
RECURSIVE DeclaredIds(_)
DeclaredIds(cs) ==
  IF cs = <<>> THEN <<>>
  ELSE IF Declared(Head(cs).name) THEN <<Head(cs).id>> \o DeclaredIds(Tail(cs))
  ELSE DeclaredIds(Tail(cs))

\* the ids the parts of a request carry, in order
PartIds(request) == [i \in DOMAIN request.parts |-> request.parts[i].id]

\* the ids of the progress markers among items, in order
RECURSIVE MarkerIds(_)
MarkerIds(items) ==
  IF items = <<>> THEN <<>>
  ELSE IF Head(items).kind # "text" THEN <<Head(items).id>> \o MarkerIds(Tail(items))
  ELSE MarkerIds(Tail(items))

Range(seq) == {seq[i] : i \in DOMAIN seq}

\* this step sends a follow-up request of the run in progress
FollowUpSent == ~Resting /\ Len(sent') = Len(sent) + 1

\* a session in which the user also submits the repository form and the chat
\* box, with any input
NextLoad ==
  \/ LoadRepo \/ LoadDetailsDone \/ LoadTreeDone \/ handleSubmit
  \/ SelectFile \/ SelectFetchDone \/ RunSteps \/ PlainChunk
SpecLoad == Init /\ [][NextLoad]_vars

\* commits of files, one after the other
NextCommit == CommitStart \/ CommitLookupDone \/ CommitWriteDone
SpecCommit == Init /\ [][NextCommit]_vars

\* one engine run against a repository that serves any kind of content
NextDecode == Next \/ ReadFetchAny
SpecDecode == Init /\ [][NextDecode]_vars

\* runs started from the live app edit form, submitted at any time, the
\* collaborator answering each request with at most one call
NextOverlap == handleGlobalAppEdit \/ OverlapEnds \/ RunSteps \/ PlainChunk
SpecOverlap == Init /\ [][NextOverlap]_vars

\* a session in any of the repositories of RepoListings
SpecRepo == RepoInit /\ [][NextSession]_vars

\* C1: when a follow-up request is sent, every declared tool call received in
\* the current turn has been executed and has a result, and the calls get
\* their results one at a time in the order they were received.
C1_FollowUpAfterAllResults ==
  [][/\ FollowUpSent => Range(DeclaredIds(turnCalls)) \subseteq executed'
     /\ executed' # executed =>
          \E id \in Range(DeclaredIds(turnCalls)) :
             /\ executed' = executed \cup {id}
             /\ \A other \in Range(DeclaredIds(turnCalls)) : other < id => other \in executed]_vars

\* C2: a turn that carried k >= 1 declared calls is over with exactly k
\* progress markers yielded in request order and exactly one follow-up request
\* sent, whose parts are the k results with the ids of the calls in order.
C2_OneFollowUpWithAllResults ==
  (pc = "await" /\ rd > 0 /\ DeclaredIds(turnCalls) # <<>>) =>
     LET ids == DeclaredIds(turnCalls)
         InTurn(item) == item.kind # "text" /\ item.id \in Range(ids)
     IN /\ MarkerIds(SelectSeq(out, InTurn)) = ids
        /\ Len(sent) = rd + 1
        /\ PartIds(sent[rd + 1]) = ids

\* C3: at most one request is outstanding: sent, its response stream not yet
\* read to its last chunk.
C3_OneOutstandingRequest ==
  Cardinality({i \in DOMAIN stream : stream[i] # "consumed"}) <= 1

\* C4: a read_file of a path an earlier update_file of the same run wrote
\* returns the written code, cut to the cap.
C4_ReadAfterWrite ==
  (lastGet.path # <<>> /\ lastGet.runWrite # undefined) =>
     /\ lastGet.kind = "content"
     /\ lastGet.response = Slice(lastGet.runWrite, CAP)

\* C5: a get of P that follows a set(P, C), by a reader that sees the overlay
\* as the set left it, returns C.
C5_OverrideLaw ==
  (lastGet.path # <<>> /\ lastGet.info.fresh /\ lastGet.info.trk.st = "set") =>
     /\ lastGet.kind = "content"
     /\ lastGet.content = lastGet.info.trk.c

\* C6: a get of P that follows set(P, C) and discard(P) returns what the
\* cache tier, else the repository, held for P before the set, and not the
\* discarded C when they held nothing.
C6_RevertLaw ==
  (lastGet.path # <<>> /\ lastGet.info.fresh /\ lastGet.info.trk.st = "discarded") =>
     IF lastGet.info.trk.pre # undefined
     THEN lastGet.kind = "content" /\ lastGet.content = lastGet.info.trk.pre
     ELSE ~(lastGet.kind = "content" /\ lastGet.content = lastGet.info.trk.c)

\* C7: a set(P, C) leaves the cache tier of every path and the local edits of
\* the paths other than P unchanged.
C7_SetWritesOnlyLocalEdit ==
  [][\A p \in Paths :
       (trk'[p] # trk[p] /\ trk'[p].st = "set") =>
          /\ filesCache' = filesCache
          /\ \A q \in Paths \ {p} : modifiedFiles'[q] = modifiedFiles[q]]_vars

\* C8: get(P) returns the local edit when one is set, else the cached content
\* when set, else the fetched content, which it stores in the cache tier; when
\* it reports an error the cache tier is as before.
C8_GetPrecedence ==
  (lastGet.path # <<>> /\ lastGet.info.fresh) =>
     IF lastGet.info.liveModified # undefined
     THEN lastGet.kind = "content" /\ lastGet.content = lastGet.info.liveModified
     ELSE IF lastGet.info.liveCache # undefined
     THEN lastGet.kind = "content" /\ lastGet.content = lastGet.info.liveCache
     ELSE IF lastGet.kind = "content"
     THEN /\ lastGet.info.hasUrl
          /\ lastGet.content = RemoteContent(lastGet.path)
          /\ lastGet.cacheAfter = lastGet.content
     ELSE lastGet.cacheAfter = lastGet.cacheBefore

\* the ids of the results sent to the collaborator so far
SentIds == UNION {Range(PartIds(sent[i])) : i \in DOMAIN sent}

\* C9: once the consumer has stopped iterating, no request is sent any more,
\* and the result of the call whose marker it consumed last is never sent.
C9_NoSendAfterStop ==
  /\ [][consumer = "stopped" => sent' = sent]_vars
  /\ [](consumer = "stopped" /\ out[Len(out)].kind # "text" => out[Len(out)].id \notin SentIds)

\* the consumer stopped at the marker of the second call of a run, after the
\* result of the first had been sent
C9_Witness ==
  /\ consumer = "stopped"
  /\ out[Len(out)].kind = "update"
  /\ out[Len(out)].id = call.id
  /\ Len(sent) >= 2

\* the stream of a follow-up or first turn has been read to its end and
\* carried no function call
ZeroCallTurnOver == ~Resting /\ rd > 0 /\ stream[rd] = "consumed" /\ turnCalls = <<>>

\* C10: once a turn's stream is over having carried no tool call, nothing is
\* sent any more and the run ends without error; it does end.
C10_EndsOnZeroCallTurn ==
  /\ [][ZeroCallTurnOver => sent' = sent /\ (ZeroCallTurnOver' \/ pc' = "done")]_vars
  /\ [][pc = "done" /\ pc' = "done" => sent' = sent]_vars
  /\ (ZeroCallTurnOver ~> pc = "done")

\* a run ended by a turn without calls that answered a tool result
C10_Witness == pc = "done" /\ Len(sent) >= 2 /\ turnCalls = <<>> /\ stream[rd] = "consumed"

\* this step completes a read_file execution that failed
ReadFailed == executed' # executed /\ call.name = "read_file" /\ lastGet'.kind = "error"

\* C11: a read_file execution that fails (the path is not in the tree, the
\* fetch fails) does not end the run: the step sends one request whose single
\* part carries the id of the failed call and the error text, the run goes on
\* with the calls of the chunk, only the transport ends a run with an error,
\* and unless the transport fails the engine goes on to read the response to
\* that request or to a later one.
C11_FailedReadIsAnswered ==
  /\ [][ReadFailed =>
          /\ pc' = "calls"
          /\ Len(sent') = Len(sent) + 1
          /\ stream'[Len(sent')] = "pending"
          /\ sent'[Len(sent')].kind = "functionResponse"
          /\ Len(sent'[Len(sent')].parts) = 1
          /\ sent'[Len(sent')].parts[1].id = call.id
          /\ sent'[Len(sent')].parts[1].name = "read_file"
          /\ sent'[Len(sent')].parts[1].response.content = ReadErrorContent]_vars
  /\ [][pc' = "failed" => pc \in {"await", "chunk", "failed"}]_vars
  /\ \A k \in 2..(MaxCalls + 1) :
        (lastGet.kind = "error" /\ Len(sent) = k /\ pc = "calls") ~> (pc = "failed" \/ rd >= k)

\* a run that ended without error after the model had been answered the
\* error of a failed read
C11_Witness ==
  /\ pc = "done"
  /\ lastGet.kind = "error"
  /\ Len(sent) >= 2
  /\ rd = Len(sent)
  /\ sent[rd].parts[1].response.content = ReadErrorContent

\* this step is a failure of the transport: the run ends with an error
TransportFailure == pc # "failed" /\ pc' = "failed"

\* C12: a failure of the transport ends the run with an error: nothing is
\* sent after it, and the history keeps every message it had, unchanged and in
\* order (the user's message, then the answer with all the text streamed so
\* far), followed by the error message.
C12_HistoryKeptOnFailure ==
  /\ [][TransportFailure =>
          /\ pc \in {"await", "chunk"}
          /\ isStreaming' = FALSE
          /\ sent' = sent
          /\ Len(messages') = Len(messages) + 1
          /\ \A i \in DOMAIN messages : messages'[i] = messages[i]
          /\ messages'[Len(messages')].text = ErrorText
          /\ messages[Len(messages) - 1] = ChatMessage(<<runs, "user">>, "user", UserText, FALSE)
          /\ messages[Len(messages)].role = "model"
          /\ messages[Len(messages)].text = out]_vars
  /\ [][pc = "failed" /\ pc' = "failed" => sent' = sent /\ messages' = messages]_vars

\* the transport failed after a text fragment and a progress marker had been
\* streamed
C12_Witness ==
  /\ pc = "failed"
  /\ Len(out) >= 2
  /\ Len(messages) = 3
  /\ messages[2].text = out
  /\ messages[3].text = ErrorText

\* items holds the progress marker of the read_file call id, naming path
ReadMarkerIn(items, id, path) ==
  \E i \in DOMAIN items : items[i] = Item("read", id, path)

\* this step yields a text fragment of the response to request number rd
TextOfAnswer == pc = "chunk" /\ pc' = "afterText"

\* C13: when the engine starts to read P for a read_file call, the marker of
\* that call, naming P, has been yielded; and when a text fragment of the
\* response to a read_file result is yielded, the marker of that call has been
\* yielded before it.
C13_ReadMarkerFirst ==
  /\ [][pc = "readExec" /\ pc' # "readExec" => ReadMarkerIn(out, call.id, call.path)]_vars
  /\ [][TextOfAnswer =>
          \A j \in DOMAIN sent[rd].parts :
             sent[rd].parts[j].name = "read_file" =>
                /\ \E path \in Paths : ReadMarkerIn(out, sent[rd].parts[j].id, path)
                /\ out'[Len(out')].kind = "text"
                /\ \E i \in 1..(Len(out') - 1) : /\ out'[i].kind = "read"
                                                  /\ out'[i].id = sent[rd].parts[j].id]_vars

\* the answer to the result of read_file is being streamed, right after the
\* marker of that call
C13_Witness ==
  /\ pc = "afterText"
  /\ rd = 2
  /\ sent[2].parts[1].name = "read_file"
  /\ Len(out) = 2
  /\ out[1].kind = "read" /\ out[1].id = sent[2].parts[1].id
  /\ out[2].kind = "text"

\* this step of the engine executes the declared call id: it makes the
\* effect of an update_file call on the overlay or the tree, or it completes
\* the read of a read_file call
ExecutesCall(id) ==
  \/ /\ AtCalls
     /\ calls # <<>>
     /\ Head(calls).id = id
     /\ Head(calls).name = "update_file"
     /\ <<modifiedFiles, filesCache, fileTree>>' # <<modifiedFiles, filesCache, fileTree>>
  \/ /\ pc \in {"readExec", "readFetch"}
     /\ call.id = id
     /\ executed' # executed

\* C14: when a declared call (read_file or update_file) is executed, its
\* progress marker has already been yielded.
C14_MarkerBeforeExecution ==
  [][\A id \in 1..MaxCalls :
       ExecutesCall(id) => \E i \in DOMAIN out : out[i].kind # "text" /\ out[i].id = id]_vars

\* nodes, the level at depth, holds a blob with this path under tree-kind
\* nodes for every proper prefix of the path
RECURSIVE HasLeaf(_, _, _)
HasLeaf(nodes, depth, path) ==
  IF depth = Len(path) - 1
  THEN \E i \in DOMAIN nodes : nodes[i].type = "blob" /\ nodes[i].path = path
  ELSE \E i \in DOMAIN nodes : /\ nodes[i].type = "tree"
                                /\ nodes[i].path = SubSeq(path, 1, depth + 1)
                                /\ HasLeaf(nodes[i].children, depth + 1, path)

\* the repository as loaded has no node with this path
AbsentAtLoad(path) == findNode(InitTree, path) = <<>>

\* this step executes an update_file call that names path
UpdatesPath(path) ==
  /\ AtCalls
  /\ calls # <<>>
  /\ Head(calls).name = "update_file"
  /\ call'.id = Head(calls).id
  /\ call'.path = path

\* C15: an update_file call with an explicit path P that is not in the tree
\* leaves a blob leaf P under tree-kind nodes for every proper prefix of P,
\* the leaf is there when the run is over, and the first get(P) of a later
\* run, nothing else having set or discarded P, returns the code C of the
\* call (the empty string included).
C15_NewFileInTreeAndOverlay ==
  /\ [][\A p \in Paths :
          UpdatesPath(p) /\ findNode(fileTree, p) = <<>> => HasLeaf(fileTree', 0, p)]_vars
  /\ [](\A p \in Paths :
          Resting /\ AbsentAtLoad(p) /\ runWrites[p] # undefined => HasLeaf(fileTree, 0, p))
  /\ [](\A p \in Paths :
          (/\ lastGet.path = p
           /\ AbsentAtLoad(p)
           /\ lastGet.info.fresh
           /\ lastGet.info.trk.st = "set"
           /\ lastGet.info.trk.pre = undefined)
          => lastGet.kind = "content" /\ lastGet.content = lastGet.info.trk.c)

\* the second run of a session reads the new file the first run created with
\* empty code
C15_Witness ==
  /\ runs = 2
  /\ lastGet.path = PathN
  /\ lastGet.info.fresh
  /\ lastGet.info.trk = [st |-> "set", c |-> Empty, pre |-> undefined]
  /\ lastGet.kind = "content"
  /\ lastGet.content = Empty
  /\ HasLeaf(fileTree, 0, PathN)

\* this step completes the execution of a read_file call and sends its result
ReadCompleted == executed' # executed /\ call.name = "read_file"

\* C16: the content a read_file result carries is the resolved content cut
\* to its first CAP characters: the same text, as long as the resolved content
\* when that has at most CAP characters and CAP characters long otherwise.
C16_ReadResultCapped ==
  [][ReadCompleted =>
       LET resolved == lastGet'.content
           returned == sent'[Len(sent')].parts[1].response.content
       IN /\ Len(sent') = Len(sent) + 1
          /\ sent'[Len(sent')].parts[1].id = call.id
          /\ returned.text = resolved.text
          /\ returned.len = IF resolved.len > CAP THEN CAP ELSE resolved.len
          /\ returned.len <= CAP]_vars

\* a read_file result was sent for a content one character longer than the cap
C16_Witness ==
  /\ lastGet.kind = "content"
  /\ lastGet.content.len = CAP + 1
  /\ call.name = "read_file"
  /\ call.id \in executed
  /\ sent[Len(sent)].parts[1].id = call.id
  /\ sent[Len(sent)].parts[1].response.content.len = CAP

\* the number of leaves (nodes without children) with this path in a tree
RECURSIVE leafCount(_, _)
leafCount(nodes, path) ==
  IF nodes = <<>> THEN 0
  ELSE (IF Head(nodes).path = path /\ Head(nodes).children = <<>> THEN 1 ELSE 0)
       + leafCount(Head(nodes).children, path) + leafCount(Tail(nodes), path)

\* C17: for every tree T reached and every path P, inserting P into
\* insert(T, P) changes nothing, and insert(T, P) holds exactly one leaf with
\* path P.
C17_InsertIdempotent ==
  \A filePath \in TreePaths :
     LET once == insertFileIntoTree(fileTree, filePath)
     IN /\ insertFileIntoTree(once, filePath) = once
        /\ leafCount(once, filePath) = 1

\* the level the parent segments of path name holds a blob named as the last
\* segment of path
RECURSIVE BlobNamedAt(_, _, _)
BlobNamedAt(nodes, depth, path) ==
  IF depth = Len(path) - 1
  THEN \E i \in DOMAIN nodes : nodes[i].type = "blob" /\ nodes[i].name = path[Len(path)]
  ELSE \E i \in DOMAIN nodes : /\ nodes[i].type = "tree"
                                /\ nodes[i].name = path[depth + 1]
                                /\ BlobNamedAt(nodes[i].children, depth + 1, path)

\* C18: for every tree T reached and every path P, insert(T, P) holds a blob
\* with path P at the level P's parent segments name, unless T held a blob of
\* that name there; so it does when T holds only a tree-kind node of that name.
C18_BlobAppended ==
  \A filePath \in TreePaths :
     \/ BlobNamedAt(fileTree, 0, filePath)
     \/ HasLeaf(insertFileIntoTree(fileTree, filePath), 0, filePath)

\* tree-kind nodes come before blobs, and nodes of one kind are in ascending
\* order of name
Sorted(nodes) ==
  \A i, j \in DOMAIN nodes :
     i < j => /\ ~(nodes[i].type = "blob" /\ nodes[j].type = "tree")
              /\ nodes[i].type = nodes[j].type => NameRank(nodes[i].name) <= NameRank(nodes[j].name)

RECURSIVE SortedEverywhere(_)
SortedEverywhere(nodes) ==
  Sorted(nodes) /\ \A i \in DOMAIN nodes : SortedEverywhere(nodes[i].children)

NoDuplicates(nodes) ==
  \A i, j \in DOMAIN nodes :
     i # j => nodes[i].path # nodes[j].path /\ nodes[i].name # nodes[j].name

RECURSIVE NoDuplicatesEverywhere(_)
NoDuplicatesEverywhere(nodes) ==
  NoDuplicates(nodes) /\ \A i \in DOMAIN nodes : NoDuplicatesEverywhere(nodes[i].children)

\* C20: in the tree of a listing without repeated paths and in every tree
\* reached from it by insertions, no two children of a parent have the same
\* path or the same name.
C20_NoDuplicateSiblings == NoDuplicatesEverywhere(fileTree)

\* this step takes a call that is neither read_file nor update_file off the
\* calls of the chunk
UndeclaredHandled ==
  /\ pc \in {"afterText", "calls"}
  /\ calls # <<>>
  /\ ~Declared(Head(calls).name)
  /\ calls' = Tail(calls)

\* the stream of the turn has been read to its end and every call it carried
\* was undeclared
UndeclaredTurnOver ==
  /\ ~Resting
  /\ rd > 0
  /\ stream[rd] = "consumed"
  /\ turnCalls # <<>>
  /\ DeclaredIds(turnCalls) = <<>>

\* C29: handling an undeclared tool call yields no marker, sends no result,
\* notifies nobody and leaves the overlay and the tree as they are; after a
\* turn whose calls were all undeclared no request is sent any more, and the
\* run ends.
C29_UndeclaredCallIgnored ==
  /\ [][UndeclaredHandled =>
          /\ out' = out
          /\ messages' = messages
          /\ sent' = sent
          /\ executed' = executed
          /\ notified' = notified
          /\ modifiedFiles' = modifiedFiles
          /\ filesCache' = filesCache
          /\ fileTree' = fileTree]_vars
  /\ [][UndeclaredTurnOver =>
          sent' = sent /\ (UndeclaredTurnOver' \/ ZeroCallTurnOver' \/ pc' = "done")]_vars
  /\ (UndeclaredTurnOver ~> pc = "done")

\* a run that ended after a turn of two undeclared calls, nothing but the
\* user's message having been sent
C29_Witness ==
  /\ pc = "done"
  /\ nextId = 3
  /\ Len(sent) = 1
  /\ out = <<>>
  /\ notified = <<>>
  /\ executed = {}

\* the positions in the history of the answer of the run in progress
BotMessages == {i \in DOMAIN messages : messages[i].id = botMsgId}

NodeKinds(nodes) == {<<n.path, n.type>> : n \in allNodes(nodes)}

\* C28: while no repository load is under way, no step (tool call, selection,
\* edit, discard) removes a node from the tree or changes its kind: the paths
\* of the tree never shrink, and the nodes of the loaded tree stay.
C28_TreeOnlyGrows ==
  /\ [][load' = load => NodeKinds(fileTree) \subseteq NodeKinds(fileTree')]_vars
  /\ [](load = NoLoad => NodeKinds(InitTree) \subseteq NodeKinds(fileTree))

\* the loaded file is still in the tree after an update_file call added a
\* file in a new folder, which the user then selected and discarded
C28_Witness ==
  /\ findNode(fileTree, PathA) # <<>>
  /\ findNode(fileTree, PathN) # <<>>
  /\ trk[PathN].st = "discarded"

\* C23: the host is notified exactly once for each update_file call that
\* writes the overlay and never for a call that wrote nothing, and the
\* notification carries the path the write went to.
C23_NotifiedOncePerWrite ==
  [][/\ notified' # notified =>
          /\ Len(notified') = Len(notified) + 1
          /\ notified'[Len(notified')].wrote # <<>>
          /\ notified'[Len(notified')].path = notified'[Len(notified')].wrote
     /\ runWrites' # runWrites => Len(notified') = Len(notified) + 1]_vars

\* C24: an update_file call without a path writes its code to the local edit
\* of the file that is selected when the call is dispatched, also when the
\* user selected it after the message was sent.
C24_PathlessWriteToActiveFile ==
  [][(/\ Len(notified') = Len(notified) + 1
      /\ notified'[Len(notified')].path = <<>>
      /\ selectedFile # <<>>) =>
        /\ notified'[Len(notified')].wrote = selectedFile[1].path
        /\ modifiedFiles'[selectedFile[1].path] = notified'[Len(notified')].code]_vars

\* this step is the user's discard of the local edit of path
DiscardOf(path) == trk'[path] # trk[path] /\ trk'[path].st = "discarded"

\* C25: a step that is not the user's discard of a path (an engine step, a
\* tool call, a selection, a fetch completing) neither removes an existing
\* local edit of the path nor leaves it empty.
C25_LocalEditKeptUntilDiscard ==
  [][\A p \in Paths :
       (Truthy(modifiedFiles[p]) /\ load' = load /\ ~DiscardOf(p)) =>
          /\ modifiedFiles'[p] # undefined
          /\ modifiedFiles'[p] # Empty]_vars

\* C21: inserting a path into a tree changes no array and no node object
\* that existed before the call: the tree given reads as before, and the
\* insertion shows only in the tree that is returned.
C21_InsertLeavesInputAlone ==
  \A filePath \in TreePaths :
     LET before == storeTree(NewHeap, fileTree)
         after == insertFileIntoTreeHeap(before.h, before.ref, filePath)
     IN /\ \A r \in DOMAIN before.h.arr : after.h.arr[r] = before.h.arr[r]
        /\ \A n \in DOMAIN before.h.node : after.h.node[n] = before.h.node[n]
        /\ loadTree(after.h, before.ref) = fileTree
        /\ loadTree(after.h, after.ref) = insertFileIntoTree(fileTree, filePath)

\* a tree with a listed folder that holds a listed file and a file an
\* insertion added, into which a further insertion would add a node
C21_Witness ==
  /\ findNode(fileTree, <<"d", "n">>) # <<>>
  /\ findNode(fileTree, <<"d", "n">>)[1].url
  /\ findNode(fileTree, <<"d", "a">>) # <<>>
  /\ ~findNode(fileTree, <<"d", "a">>)[1].url
  /\ insertFileIntoTree(fileTree, <<"d", "d">>) # fileTree

\* the nodes at path in the level of nodes that is under parentPath
RECURSIVE nodesAt(_, _, _)
nodesAt(nodes, parentPath, path) ==
  IF Len(path) = Len(parentPath) + 1
  THEN {i \in DOMAIN nodes : nodes[i].path = path}
  ELSE LET above == SubSeq(path, 1, Len(parentPath) + 1)
           folders == {i \in DOMAIN nodes : nodes[i].path = above /\ nodes[i].type = "tree"}
       IN IF folders = {} THEN {}
          ELSE nodesAt(nodes[CHOOSE i \in folders : TRUE].children, above, path)

\* the listing holds a tree-kind item at path
ListedFolder(l, path) == \E i \in DOMAIN l : l[i].path = path /\ l[i].type = "tree"

\* C22: the tree built from a listing holds no node for an item whose parent
\* path is not listed, or is listed as a blob, and holds exactly one node,
\* among the children of its parent's node, for every item all of whose
\* ancestors are listed as folders.
C22_OrphansSkippedChainsKept ==
  LET built == fetchRepoTree(listing)
  IN \A i \in DOMAIN listing :
       LET path == listing[i].path
       IN /\ (Len(path) > 1 /\ ~ListedFolder(listing, SubSeq(path, 1, Len(path) - 1))) =>
               \A n \in allNodes(built) : n.path # path
          /\ (\A k \in 1..(Len(path) - 1) : ListedFolder(listing, SubSeq(path, 1, k))) =>
               /\ Cardinality(nodesAt(built, <<>>, path)) = 1
               /\ Cardinality({n \in allNodes(built) : n.path = path}) = 1
               /\ \A n \in allNodes(built) : n.path = path => n.type = listing[i].type

\* the tree of a listing in which a file comes before its folder and another
\* file has no parent: the first is in its folder, the second nowhere
C22_Witness ==
  /\ listing = <<ListItem(<<"d", "n">>, "blob"), ListItem(<<"d">>, "tree"),
                 ListItem(<<"n", "a">>, "blob")>>
  /\ fileTree = <<TreeNode(<<"d">>, TRUE, <<BlobNode(<<"d", "n">>, TRUE)>>)>>

\* the submission is one the forms must reject: an empty or malformed
\* repository reference, a chat input with neither text nor image
Rejectable(s) ==
  \/ /\ s.kind = "load"
     /\ \/ s.input.text = ""
        \/ ~s.input.parses
        \/ s.input.hostname # "github.com"
        \/ Len(s.input.parts) < 2
  \/ /\ s.kind = "chat"
     /\ s.input.text.text \in {"", " "}
     /\ ~s.input.image

\* C26: submitting a malformed repository reference or an empty required
\* input issues no network request and leaves the messages, the tree, both
\* overlay tiers and the selected file as they were.
C26_RejectedBeforeAnyRequest ==
  [][(submitted'.n # submitted.n /\ Rejectable(submitted')) =>
        /\ load'.requests = load.requests
        /\ sent' = sent
        /\ selFetch' = selFetch
        /\ messages' = messages
        /\ fileTree' = fileTree
        /\ filesCache' = filesCache
        /\ modifiedFiles' = modifiedFiles
        /\ selectedFile' = selectedFile]_vars

\* a repository reference on another host was rejected after a conversation
\* in which an update_file call had written a local edit
C26_Witness ==
  /\ submitted.kind = "load"
  /\ submitted.input.hostname = "gitlab.com"
  /\ load.error
  /\ load.requests = 0
  /\ messages # <<>>
  /\ Truthy(modifiedFiles[PathA])

\* C27: a commit sends the lookup of the version marker first and the write
\* after the lookup has settled; the write carries the marker the lookup
\* found exactly when it found the file and carries none when the file does
\* not exist; a write the repository did not take ends the commit with an
\* error, and only a write it took ends it without.
C27_LookupThenWrite ==
  /\ [](\A i \in DOMAIN commit.log :
          commit.log[i].method = "PUT" =>
             /\ i > 1
             /\ commit.log[i - 1].method = "GET"
             /\ commit.log[i - 1].path = commit.log[i].path)
  /\ [](commit.pc = "lookup" => commit.log[Len(commit.log)].method = "GET")
  /\ [][(commit.pc = "lookup" /\ commit'.pc # "lookup") =>
          /\ commit'.pc = "write"
          /\ Len(commit'.log) = Len(commit.log) + 1
          /\ commit'.log[Len(commit'.log)].method = "PUT"
          /\ commit'.log[Len(commit'.log)].path = commit.path
          /\ commit'.log[Len(commit'.log)].sha # 0 <=> commit'.lookup = "found"
          /\ commit'.lookup = "found" => commit'.log[Len(commit'.log)].sha = remoteSha[commit.path]
          /\ remoteSha[commit.path] = 0 => commit'.log[Len(commit'.log)].sha = 0]_vars
  /\ [][commit.pc = "write" =>
          /\ commit'.pc \in {"write", "done", "failed"}
          /\ commit'.pc = "done" <=> remoteSha' # remoteSha
          /\ commit'.log = commit.log]_vars

\* the second commit of a file went through: its write carried the marker of
\* the version the first commit had created
C27_Witness ==
  /\ commit.pc = "done"
  /\ Len(commit.log) = 4
  /\ commit.log[2].sha = 0
  /\ commit.log[4].sha = 1
  /\ remoteSha[commit.path] = 2

\* C32: the engine sends the success acknowledgement of an update_file call
\* only when the host wrote the code to the local edit of some path.
C32_SuccessOnlyIfWritten ==
  [][(/\ Len(sent') = Len(sent) + 1
      /\ sent'[Len(sent')].kind = "functionResponse"
      /\ sent'[Len(sent')].parts[1].name = "update_file"
      /\ sent'[Len(sent')].parts[1].response.kind = "result") =>
        \E i \in DOMAIN notified :
           /\ notified[i].id = sent'[Len(sent')].parts[1].id
           /\ notified[i].wrote # <<>>]_vars

\* C34: isStreaming is true while an engine run is active, and once the run
\* has ended, with or without an error, no message has its streaming flag set.
C34_StreamingFlagsConsistent ==
  /\ [](~Resting => isStreaming)
  /\ [](Resting => \A i \in DOMAIN messages : ~messages[i].isStreaming)

\* C35: when a run has ended normally the response stream of every request it
\* sent has been read to its end.
C35_EveryResponseConsumed ==
  [](pc = "done" => \A i \in DOMAIN stream : stream[i] = "consumed")

\* C36: a read_file call starts a fetch for a path without local edit only
\* when the cache tier holds nothing for the path: a second read of the path
\* in the run is served from what the first one cached.
C36_OneFetchPerPath ==
  [][(pc = "readExec" /\ pc' = "readFetch" /\ ~Truthy(modifiedFiles[call.path])) =>
        ~Truthy(filesCache[call.path])]_vars

\* C31: a read_file whose fetch brought content that is no text (bytes that
\* are no UTF-8 text, or something that is no base64) does not end the run
\* and answers the model with the placeholder message; a fetch that failed
\* answers with the error text.
C31_UndecodableGivesPlaceholder ==
  [][(pc = "readFetch" /\ pc' # "readFetch") =>
        /\ pc' = "calls"
        /\ Len(sent') = Len(sent) + 1
        /\ lastGet'.info.served \in {"binary", "malformed"} =>
              /\ lastGet'.kind = "content"
              /\ lastGet'.content = DecodePlaceholder
              /\ sent'[Len(sent')].parts[1].response.content = Slice(DecodePlaceholder, CAP)
        /\ lastGet'.info.served = "failed" =>
              /\ lastGet'.kind = "error"
              /\ sent'[Len(sent')].parts[1].response.content = ReadErrorContent]_vars

\* this step belongs to the handling of a read_file call: its dispatch, its
\* execution, the completion of its fetch
ReadStep == pc' # pc /\ (pc' = "readExec" \/ pc \in {"readExec", "readFetch"})

\* C40: the handling of a read_file call changes no local edit, not the tree,
\* not the selected file and no cache entry but that of the path read, and
\* when the read fails it changes no cache entry either.
C40_ReadWritesOnlyItsCacheEntry ==
  [][ReadStep =>
        /\ modifiedFiles' = modifiedFiles
        /\ fileTree' = fileTree
        /\ selectedFile' = selectedFile
        /\ selFetch' = selFetch
        /\ notified' = notified
        /\ \A q \in Paths \ {call'.path} : filesCache'[q] = filesCache[q]
        /\ (executed' # executed /\ lastGet'.kind = "error") => filesCache' = filesCache]_vars

\* a read fetched a file and cached it after an update_file call of the run
\* had written another path, whose local edit and cache entry are as written
C40_Witness ==
  /\ lastGet.path = PathA
  /\ lastGet.kind = "content"
  /\ lastGet.info.served = "text"
  /\ lastGet.cacheBefore = undefined
  /\ filesCache[PathA] = RemoteContent(PathA)
  /\ runWrites[PathN] = Str("X", 1)
  /\ modifiedFiles[PathN] = Str("X", 1)
  /\ filesCache[PathN] = Str("X", 1)

\* the run in progress was started before the repository load that emptied
\* the message list: its answer is not among the messages
StaleRun == ~Resting /\ load.accepted > 0 /\ BotMessages = {}

\* C37: a step of an engine run that was in flight when a repository load
\* started adds no local edit, no cache entry, no tree node and no message.
C37_OldRunWritesNothing ==
  [][(StaleRun /\ <<pc, calls>>' # <<pc, calls>>) =>
        /\ modifiedFiles' = modifiedFiles
        /\ filesCache' = filesCache
        /\ fileTree' = fileTree
        /\ messages' = messages]_vars

\* C33: at most one engine run is active at any time.
C33_OneActiveRun == ~(~Resting /\ overlap = "active")

\* C38: once an update_file call has written the local edit of a path, the
\* tree holds a blob node with that path.
C38_EditedPathHasBlobNode ==
  [][(Len(notified') = Len(notified) + 1 /\ notified'[Len(notified')].wrote # <<>>) =>
        /\ modifiedFiles'[notified'[Len(notified')].wrote] = notified'[Len(notified')].code
        /\ \E n \in allNodes(fileTree') :
              n.path = notified'[Len(notified')].wrote /\ n.type = "blob"]_vars

\* C39: when the user selected a second file while the content fetch of
\* the first was pending, the second one is the selected file once both
\* fetches have completed, whichever completes last.
C39_LastSelectionWins ==
  (/\ selFetch = {}
   /\ lastSelect.pending # {}
   /\ \A q \in lastSelect.pending \cup {lastSelect.path} : filesCache[q] = RemoteContent(q)
   /\ selectedFile # <<>>) =>
      selectedFile[1].path = lastSelect.path
====
